---- MODULE Spec2Model ----
(***************************************************************************)
(* A model of the Contentful helpers, the generator and the preview        *)
(* service of the-seo-pilot-site (scripts/contentful-helpers.js,           *)
(* scripts/generate-resources.js, preview-api/server.js).                  *)
(*                                                                         *)
(* JavaScript values are tagged records:                                   *)
(*   [kind |-> "undefined"], [kind |-> "null"],                            *)
(*   [kind |-> "string", chars |-> <<"a", "b">>]  (a sequence of chars),   *)
(*   [kind |-> "number", n |-> 0], [kind |-> "boolean", b |-> TRUE],       *)
(*   [kind |-> "array", elems |-> <<v1, v2>>],                             *)
(*   [kind |-> "object", proto |-> "Object", props |-> <<[key, val], ..>>] *)
(* with the properties of an object in their enumeration order (the keys   *)
(* are never array indices, so that order is the insertion order).         *)
(***************************************************************************)
EXTENDS Naturals, Sequences, FiniteSets, TLC

VARIABLES
  uIn, uOut, uRep, uOut2, uPc,          \* one call of unwrap, and two more
  rId, rItems, rIncludes, rOut, rPc,    \* one call of resolveEntry
  bEntry, bIncludes, bOut, bPc,         \* one call of renderEmbeddedEntry
  dDoc, dIncludes, dItems, dOut, dPc,   \* one call of richTextToHtml
  pKind, pEntry, pIncludes, pOut, pPc,  \* one detail page of the generator
  fDoc, fPairs, fSchema, fPc,           \* extractFaqPairs, then buildFaqSchema
  gCms, gCreds, gBlogRes, gCsRes,       \* generation runs: the content of the CMS, the
  gFiles, gWritten, gFetches, gExit,    \*   credentials, both fetches, the output tree,
  gRuns, gPc,                           \*   the writes and fetches of the run, its exit
  sConf, sOrigin, sQuery, sAllow,       \* one request to the preview service: the
  sFetches, sUp, sRes, sPc,             \*   configuration, the request, the upstream
                                        \*   call and its outcome, the responses sent
  env                                   \* process.env

uvars == <<uIn, uOut, uRep, uOut2, uPc>>
rvars == <<rId, rItems, rIncludes, rOut, rPc>>
bvars == <<bEntry, bIncludes, bOut, bPc>>
dvars == <<dDoc, dIncludes, dItems, dOut, dPc>>
pvars == <<pKind, pEntry, pIncludes, pOut, pPc>>
fvars == <<fDoc, fPairs, fSchema, fPc>>
gvars == <<gCms, gCreds, gBlogRes, gCsRes, gFiles, gWritten, gFetches, gExit, gRuns, gPc>>
svars == <<sConf, sOrigin, sQuery, sAllow, sFetches, sUp, sRes, sPc>>
vars == <<uvars, rvars, bvars, dvars, pvars, fvars, gvars, svars, env>>

\* what a call of one function leaves alone
notU == <<rvars, bvars, dvars, pvars, fvars, gvars, svars, env>>
notR == <<uvars, bvars, dvars, pvars, fvars, gvars, svars, env>>
notB == <<uvars, rvars, dvars, pvars, fvars, gvars, svars, env>>
notD == <<uvars, rvars, bvars, pvars, fvars, gvars, svars, env>>
notP == <<uvars, rvars, bvars, dvars, fvars, gvars, svars, env>>
notF == <<uvars, rvars, bvars, dvars, pvars, gvars, svars, env>>
notG == <<uvars, rvars, bvars, dvars, pvars, fvars, svars, env>>
notS == <<uvars, rvars, bvars, dvars, pvars, fvars, gvars, env>>

(***************************************************************************)
(* Bounds of the model.                                                    *)
(***************************************************************************)
MaxLocales == 2     \* keys of a locale-map
MaxPool == 2        \* entities of one pool (items, includes.Entry)

(***************************************************************************)
(* JavaScript values.                                                      *)
(***************************************************************************)
Undefined == [kind |-> "undefined"]
Null == [kind |-> "null"]
Str(s) == [kind |-> "string", chars |-> s]
Num(n) == [kind |-> "number", n |-> n]
Bool(b) == [kind |-> "boolean", b |-> b]
Arr(es) == [kind |-> "array", elems |-> es]
Prop(k, v) == [key |-> k, val |-> v]
Obj(ps) == [kind |-> "object", proto |-> "Object", props |-> ps]
\* an object that JSON never yields: its constructor is not Object
Inst(ps) == [kind |-> "object", proto |-> "Other", props |-> ps]

\* x == null
IsNullish(x) == x.kind \in {"undefined", "null"}

\* ToBoolean(x)
Truthy(x) ==
  CASE x.kind \in {"undefined", "null"} -> FALSE
    [] x.kind = "string" -> x.chars # <<>>
    [] x.kind = "number" -> x.n # 0
    [] x.kind = "boolean" -> x.b
    [] OTHER -> TRUE

\* a || b
Or(a, b) == IF Truthy(a) THEN a ELSE b

\* Object.values(x) of an object
ObjectValues(x) == [i \in 1..Len(x.props) |-> x.props[i].val]

\* Object.keys(x) of an object
ObjectKeys(x) == [i \in 1..Len(x.props) |-> x.props[i].key]

HasKey(x, k) == x.kind = "object" /\ \E i \in 1..Len(x.props) : x.props[i].key = k

\* x.k, and x?.k: undefined when x has no property k (or x is null/undefined)
Get(x, k) ==
  IF HasKey(x, k)
  THEN x.props[CHOOSE i \in 1..Len(x.props) : x.props[i].key = k].val
  ELSE Undefined

\* process.env with no variable set
EnvDefault ==
  [CONTENTFUL_RICH_CONTENT_BLOCK_TYPE |-> Undefined, CONTENTFUL_CTA_BLOCK_TYPE |-> Undefined,
   CONTENTFUL_CONTENT_FIELD |-> Undefined, CONTENTFUL_FAQS_FIELD |-> Undefined]

\* the functions that are not being called
UnwrapIdle ==
  /\ uIn = Undefined /\ uOut = Undefined /\ uRep = Undefined /\ uOut2 = Undefined
  /\ uPc = "idle"

ResolveIdle ==
  /\ rId = <<>> /\ rItems = Undefined /\ rIncludes = Undefined /\ rOut = Undefined
  /\ rPc = "idle"

BlockIdle == bEntry = Undefined /\ bIncludes = Undefined /\ bOut = Undefined /\ bPc = "idle"

PageIdle ==
  /\ pKind = "" /\ pEntry = Undefined /\ pIncludes = Undefined /\ pOut = Undefined
  /\ pPc = "idle"

DocIdle ==
  /\ dDoc = Undefined /\ dIncludes = Undefined /\ dItems = Undefined /\ dOut = Undefined
  /\ dPc = "idle"

FaqIdle == fDoc = Undefined /\ fPairs = Undefined /\ fSchema = Undefined /\ fPc = "idle"

ServerIdle ==
  /\ sConf = Undefined /\ sOrigin = Undefined /\ sQuery = Undefined /\ sAllow = FALSE
  /\ sFetches = 0 /\ sUp = Undefined /\ sRes = <<>> /\ sPc = "off"

\* a fetch that was not issued
NoFetch == [state |-> "none", data |-> Undefined]

RunIdle ==
  /\ gCms = Undefined /\ gCreds = Undefined /\ gBlogRes = NoFetch /\ gCsRes = NoFetch
  /\ gFiles = <<>> /\ gWritten = <<>> /\ gFetches = 0 /\ gExit = 0 /\ gRuns = 0
  /\ gPc = "off"

(***************************************************************************)
(* unwrap (contentful-helpers.js 9-16)                                     *)
(***************************************************************************)
\* typeof x === 'object' && !Array.isArray(x) && x.constructor === Object
IsPlainObject(x) == x.kind = "object" /\ x.proto = "Object"

\* a plausible bug: the last locale wins
unwrap_LastValue(x) ==
  IF IsNullish(x) THEN Undefined
  ELSE IF IsPlainObject(x)
       THEN IF Len(x.props) = 0 THEN Undefined
            ELSE LET v == ObjectValues(x)[Len(x.props)]
                 IN IF ~IsNullish(v) THEN v ELSE Undefined
       ELSE x

\* a plausible bug: "if (!x)" for "if (x == null)", so that '', 0 and false are lost
unwrap_FalsyLost(x) ==
  IF ~Truthy(x) THEN Undefined
  ELSE IF IsPlainObject(x)
       THEN IF Len(x.props) = 0 THEN Undefined
            ELSE LET v == ObjectValues(x)[1]
                 IN IF ~IsNullish(v) THEN v ELSE Undefined
       ELSE x

unwrap(x) ==
  IF IsNullish(x) THEN Undefined
  ELSE IF IsPlainObject(x)
       THEN IF Len(x.props) = 0 THEN Undefined      \* Object.values(x)[0] of {}
            ELSE LET v == ObjectValues(x)[1]
                 IN IF ~IsNullish(v) THEN v ELSE Undefined
       ELSE x

(***************************************************************************)
(* The values unwrap is called on.                                         *)
(***************************************************************************)
LocaleKeys == {"en-US", "fr", "de"}

\* { sys: { type: 'Link', linkType: t, id: id } }
LinkStub(t, id) ==
  Obj(<<Prop("sys", Obj(<<Prop("type", Str(<<"Link">>)),
                          Prop("linkType", Str(<<t>>)),
                          Prop("id", Str(id))>>))>>)

TextNode(s) ==
  Obj(<<Prop("nodeType", Str(<<"text">>)), Prop("value", Str(s)),
        Prop("marks", Arr(<<>>)), Prop("data", Obj(<<>>))>>)

\* a node { nodeType, data, content } in the key order of the content API
Node(t, data, content) ==
  Obj(<<Prop("nodeType", Str(<<t>>)), Prop("data", data), Prop("content", Arr(content))>>)

Paragraph(s) == Node("paragraph", Obj(<<>>), <<TextNode(s)>>)
Document(content) == Node("document", Obj(<<>>), content)

\* the same document with its keys in another order
DocumentDataFirst(content) ==
  Obj(<<Prop("data", Obj(<<>>)), Prop("content", Arr(content)),
        Prop("nodeType", Str(<<"document">>))>>)

IsScalar(x) == x.kind \in {"string", "number", "boolean"}
IsArray(x) == x.kind = "array"
\* an object carrying only a sys reference
IsLinkStub(x) == IsPlainObject(x) /\ ObjectKeys(x) = <<"sys">>
\* an object with nodeType and content
IsRichText(x) == IsPlainObject(x) /\ HasKey(x, "nodeType") /\ HasKey(x, "content")
IsLocaleMap(x) ==
  IsPlainObject(x) /\ \A i \in 1..Len(x.props) : x.props[i].key \in LocaleKeys

Scalars ==
  {Str(<<>>), Str(<<"x">>), Str(<<"y">>), Num(0), Num(1), Bool(FALSE), Bool(TRUE)}

Stubs == {LinkStub("Entry", <<"e", "1">>), LinkStub("Asset", <<"a", "1">>)}

RichTexts ==
  {Document(<<>>), Document(<<Paragraph(<<"H", "i">>)>>),
   DocumentDataFirst(<<Paragraph(<<"H", "i">>)>>)}

Arrays == {Arr(<<>>), Arr(<<Str(<<"x">>)>>), Arr(<<LinkStub("Entry", <<"e", "1">>)>>)}

\* what a locale holds: a scalar, null, a link stub, a document, an array
LocaleVals ==
  {Null, Str(<<>>), Str(<<"x">>), Str(<<"y">>), Num(0), Bool(FALSE),
   LinkStub("Entry", <<"e", "1">>), Document(<<Paragraph(<<"H", "i">>)>>), Arr(<<>>)}

\* the sequences over S of length at most n without a repeated element
DistinctSeqs(S, n) ==
  {q \in UNION {[1..m -> S] : m \in 0..n} :
     \A i, j \in 1..Len(q) : i # j => q[i] # q[j]}

LocaleMaps ==
  UNION {{Obj([i \in 1..Len(ks) |-> Prop(ks[i], vs[i])]) :
            vs \in [1..Len(ks) -> LocaleVals]} :
         ks \in DistinctSeqs(LocaleKeys, MaxLocales)}

UnwrapInputs ==
  {Undefined, Null, Inst(<<Prop("t", Num(1))>>)}
    \cup Scalars \cup Stubs \cup RichTexts \cup Arrays \cup LocaleMaps

(***************************************************************************)
(* One call unwrap(x), the same call again, and unwrap of its result.      *)
(***************************************************************************)
UnwrapCall ==
  /\ uPc = "ready"
  /\ uOut' = unwrap(uIn)
  /\ uPc' = "called"
  /\ UNCHANGED <<uIn, uRep, uOut2, notU>>

UnwrapRepeat ==
  /\ uPc = "called"
  /\ uRep' = unwrap(uIn)
  /\ uPc' = "repeated"
  /\ UNCHANGED <<uIn, uOut, uOut2, notU>>

UnwrapAgain ==
  /\ uPc = "repeated"
  /\ uOut2' = unwrap(uOut)
  /\ uPc' = "twice"
  /\ UNCHANGED <<uIn, uOut, uRep, notU>>

InitUnwrap ==
  /\ uIn \in UnwrapInputs
  /\ uOut = Undefined /\ uRep = Undefined /\ uOut2 = Undefined
  /\ uPc = "ready"
  /\ ResolveIdle /\ BlockIdle /\ DocIdle /\ PageIdle /\ FaqIdle /\ RunIdle
  /\ ServerIdle
  /\ env = EnvDefault

NextUnwrap == UnwrapCall \/ UnwrapRepeat \/ UnwrapAgain

SpecUnwrap == InitUnwrap /\ [][NextUnwrap]_vars

(***************************************************************************)
(* Claims about unwrap.                                                    *)
(***************************************************************************)
\* C2: arrays, link stubs (objects carrying only a sys reference) and rich-text
\* documents (objects with nodeType and content) pass through unwrap untouched:
\* unwrap(x) is x itself, not one of its members.
C2_PassThrough ==
  (uPc # "ready" /\ (IsArray(uIn) \/ IsLinkStub(uIn) \/ IsRichText(uIn)))
    => uOut = uIn

\* C3 as stated: unwrap of a locale-map is the value of its first key in enumeration
\* order, and undefined when the map is empty; unwrap(null) and unwrap of a missing
\* value are undefined; a repeated call returns the same result.
C3_FirstKeyValue ==
  /\ (uPc # "ready" /\ IsLocaleMap(uIn))
       => uOut = IF Len(uIn.props) = 0 THEN Undefined ELSE Get(uIn, ObjectKeys(uIn)[1])
  /\ (uPc # "ready" /\ IsNullish(uIn)) => uOut = Undefined
  /\ uPc \in {"repeated", "twice"} => uRep = uOut

\* C3 amended: unwrap of a locale-map is the value of its first key in enumeration
\* order when that value is not null, and undefined when it is null or the map is
\* empty; unwrap(null) and unwrap of a missing value are undefined; a repeated call
\* returns the same result.
C3_FirstKeyValueUnlessNull ==
  /\ (uPc # "ready" /\ IsLocaleMap(uIn))
       => uOut = IF Len(uIn.props) = 0 THEN Undefined
                 ELSE IF Get(uIn, ObjectKeys(uIn)[1]) = Null THEN Undefined
                 ELSE Get(uIn, ObjectKeys(uIn)[1])
  /\ (uPc # "ready" /\ IsNullish(uIn)) => uOut = Undefined
  /\ uPc \in {"repeated", "twice"} => uRep = uOut

\* a map of two locales holding different values has been unwrapped to the first
C3_Witness ==
  /\ uPc = "twice" /\ IsLocaleMap(uIn) /\ Len(uIn.props) = 2
  /\ ObjectKeys(uIn)[1] = "fr"
  /\ uIn.props[1].val # uIn.props[2].val
  /\ uOut = uIn.props[1].val /\ uRep = uOut

\* C4: for a scalar v (a string, a number, a boolean), unwrap(v) = v and
\* unwrap(unwrap(v)) = unwrap(v).
C4_ScalarIdempotent ==
  (uPc = "twice" /\ IsScalar(uIn)) => (uOut = uIn /\ uOut2 = uOut)

\* the empty string, a falsy scalar, has been unwrapped twice
C4_Witness == uPc = "twice" /\ uIn = Str(<<>>) /\ uOut2 = Str(<<>>)

(***************************************************************************)
(* resolveEntry (contentful-helpers.js 18-23)                              *)
(***************************************************************************)
\* (e) => e.sys && e.sys.id === id
SysIdIs(e, id) == Truthy(Get(e, "sys")) /\ Get(Get(e, "sys"), "id") = id

\* list.find((e) => e.sys && e.sys.id === id) as the index of the element
\* found, 0 if there is none
FindIndex(list, id) ==
  IF \E i \in 1..Len(list) : SysIdIs(list[i], id)
  THEN CHOOSE i \in 1..Len(list) :
         SysIdIs(list[i], id) /\ \A j \in 1..(i - 1) : ~SysIdIs(list[j], id)
  ELSE 0

\* a plausible bug: the includes are searched before the items
resolveEntry_IncludesFirst(id, includes, items) ==
  LET fromItems == IF IsArray(items) THEN items.elems ELSE <<>>
      entry == IF Truthy(includes) THEN Get(includes, "Entry") ELSE includes
      fromIncludes == IF Truthy(entry) THEN entry.elems ELSE <<>>
      list == fromIncludes \o fromItems
      i == FindIndex(list, id)
  IN IF i = 0 THEN Null ELSE list[i]

resolveEntry(id, includes, items) ==
  LET fromItems == IF IsArray(items) THEN items.elems ELSE <<>>
      \* includes && includes.Entry
      entry == IF Truthy(includes) THEN Get(includes, "Entry") ELSE includes
      fromIncludes == IF Truthy(entry) THEN entry.elems ELSE <<>>
      list == fromItems \o fromIncludes
      i == FindIndex(list, id)
  IN IF i = 0 THEN Null ELSE list[i]

(***************************************************************************)
(* Entities and pools.                                                     *)
(***************************************************************************)
\* { 'en-US': v }
Localized(v) == Obj(<<Prop("en-US", v)>>)

\* { sys: { id, type: 'Entry', contentType: { sys: { id: ct } } }, fields }
Entry(id, ct, fields) ==
  Obj(<<Prop("sys", Obj(<<Prop("id", Str(id)), Prop("type", Str(<<"Entry">>)),
                          Prop("contentType",
                               Obj(<<Prop("sys", Obj(<<Prop("id", Str(ct))>>))>>))>>)),
        Prop("fields", Obj(fields))>>)

Titled(id, t) == Entry(id, <<"t">>, <<Prop("title", Localized(Str(t)))>>)

EntryIds == {<<"e", "1">>, <<"e", "2">>}

ResolvePoolEntities ==
  {Titled(id, t) : id \in EntryIds, t \in {<<"x">>, <<"y">>}}
    \cup {Obj(<<Prop("fields", Obj(<<>>))>>)}      \* an entity without sys

SeqsUpTo(S, n) == UNION {[1..m -> S] : m \in 0..n}

Includes(entries, assets) == Obj(<<Prop("Entry", Arr(entries)), Prop("Asset", Arr(assets))>>)

ResolveCall ==
  /\ rPc = "ready"
  /\ rOut' = resolveEntry(Str(rId), rIncludes, rItems)
  /\ rPc' = "done"
  /\ UNCHANGED <<rId, rItems, rIncludes, notR>>

InitResolve ==
  /\ rId \in EntryIds \cup {<<"e", "3">>}
  /\ rItems \in {Arr(q) : q \in SeqsUpTo(ResolvePoolEntities, MaxPool)} \cup {Undefined}
  /\ rIncludes \in {Includes(q, <<>>) : q \in SeqsUpTo(ResolvePoolEntities, MaxPool)}
                     \cup {Undefined, Obj(<<Prop("Asset", Arr(<<>>))>>)}
  /\ rOut = Undefined
  /\ rPc = "ready"
  /\ UnwrapIdle /\ BlockIdle /\ DocIdle /\ PageIdle /\ FaqIdle /\ RunIdle
  /\ ServerIdle
  /\ env = EnvDefault

NextResolve == ResolveCall

SpecResolve == InitResolve /\ [][NextResolve]_vars

\* the entities of a pool argument, in order
PoolOf(x) == IF IsArray(x) THEN x.elems ELSE <<>>
HasId(pool, id) == \E i \in 1..Len(pool) : SysIdIs(pool[i], Str(id))
FirstWithId(pool, id) ==
  pool[CHOOSE i \in 1..Len(pool) :
         SysIdIs(pool[i], Str(id)) /\ \A j \in 1..(i - 1) : ~SysIdIs(pool[j], Str(id))]

\* C1: resolveEntry(id, includes, items) is the first entity with identifier id of
\* items ++ includes.Entry: the one of items when both pools have the id, and null
\* when neither has it.
C1_ItemsFirst ==
  rPc = "done" =>
    LET its == PoolOf(rItems)
        incs == PoolOf(Get(rIncludes, "Entry"))
    IN /\ HasId(its, rId) => rOut = FirstWithId(its, rId)
       /\ (~HasId(its, rId) /\ HasId(incs, rId)) => rOut = FirstWithId(incs, rId)
       /\ (~HasId(its, rId) /\ ~HasId(incs, rId)) => rOut = Null

\* both pools hold an entity e1, with different fields, and the one of items is returned
C1_Witness ==
  /\ rPc = "done" /\ rId = <<"e", "1">>
  /\ rItems = Arr(<<Titled(<<"e", "2">>, <<"x">>), Titled(<<"e", "1">>, <<"x">>)>>)
  /\ rIncludes = Includes(<<Titled(<<"e", "1">>, <<"y">>)>>, <<>>)
  /\ rOut = Titled(<<"e", "1">>, <<"x">>)

(***************************************************************************)
(* Strings.  A string is a sequence of units; a unit is one character, or  *)
(* a piece of literal markup or an entity reference ("&amp;") written by   *)
(* the code as a whole, so that a raw special character of the data is     *)
(* never mistaken for one the code wrote.                                  *)
(***************************************************************************)
Thrown == [kind |-> "throw"]      \* the call did not return: it threw

IsString(x) == x.kind = "string"

\* String(s)
StringOf(v) ==
  CASE v.kind = "string" -> v.chars
    [] v.kind = "number" -> IF v.n = 0 THEN <<"0">> ELSE <<"1">>
    [] v.kind = "boolean" -> IF v.b THEN <<"true">> ELSE <<"false">>
    [] v.kind = "undefined" -> <<"undefined">>
    [] v.kind = "null" -> <<"null">>
    [] v.kind = "array" -> <<>>
    [] OTHER -> <<"[object Object]">>

\* s.replace(/c/g, r) for a character c and a replacement unit r
ReplaceAll(s, c, r) == [i \in 1..Len(s) |-> IF s[i] = c THEN r ELSE s[i]]

LowerChar(c) ==
  CASE c = "A" -> "a" [] c = "B" -> "b" [] c = "C" -> "c" [] c = "D" -> "d"
    [] c = "E" -> "e" [] c = "F" -> "f" [] c = "G" -> "g" [] c = "H" -> "h"
    [] c = "I" -> "i" [] c = "J" -> "j" [] c = "K" -> "k" [] c = "L" -> "l"
    [] c = "M" -> "m" [] c = "N" -> "n" [] c = "O" -> "o" [] c = "P" -> "p"
    [] c = "Q" -> "q" [] c = "R" -> "r" [] c = "S" -> "s" [] c = "T" -> "t"
    [] c = "U" -> "u" [] c = "V" -> "v" [] c = "W" -> "w" [] c = "X" -> "x"
    [] c = "Y" -> "y" [] c = "Z" -> "z" [] OTHER -> c

\* s.toLowerCase()
ToLowerCase(s) == [i \in 1..Len(s) |-> LowerChar(s[i])]

\* s.startsWith('//')
StartsWithSlashSlash(s) == Len(s) >= 2 /\ s[1] = "/" /\ s[2] = "/"

(***************************************************************************)
(* escapeHtml, escapeAttr (contentful-helpers.js 122-137)                  *)
(***************************************************************************)
escapeHtml(s) ==
  IF IsNullish(s) THEN <<>>
  ELSE ReplaceAll(ReplaceAll(ReplaceAll(ReplaceAll(StringOf(s),
         "&", "&amp;"), "<", "&lt;"), ">", "&gt;"), "\"", "&quot;")

escapeAttr(s) ==
  IF IsNullish(s) THEN <<>>
  ELSE ReplaceAll(ReplaceAll(ReplaceAll(StringOf(s),
         "&", "&amp;"), "\"", "&quot;"), "'", "&#39;")

(***************************************************************************)
(* blockTypeClass (contentful-helpers.js 139-144)                          *)
(***************************************************************************)
IsWhitespace(c) == c \in {" ", "\t", "\n"}

\* s.replace(/\s+/g, '-'): each run of whitespace becomes one '-'
RECURSIVE ReplaceWhitespaceRuns(_)
ReplaceWhitespaceRuns(s) ==
  IF s = <<>> THEN <<>>
  ELSE IF IsWhitespace(Head(s))
       THEN IF Len(s) >= 2 /\ IsWhitespace(s[2])
            THEN ReplaceWhitespaceRuns(Tail(s))
            ELSE <<"-">> \o ReplaceWhitespaceRuns(Tail(s))
       ELSE <<Head(s)>> \o ReplaceWhitespaceRuns(Tail(s))

StyleClasses ==
  {<<"t", "e", "x", "t">>, <<"i", "m", "a", "g", "e">>, <<"q", "u", "o", "t", "e">>,
   <<"l", "i", "s", "t">>, <<"c", "o", "d", "e">>, <<"c", "t", "a">>}

blockTypeClass(blockType) ==
  IF ~Truthy(blockType) \/ ~IsString(blockType) THEN <<"t", "e", "x", "t">>
  ELSE LET t == ReplaceWhitespaceRuns(ToLowerCase(blockType.chars))
       IN IF t \in StyleClasses THEN t ELSE <<"t", "e", "x", "t">>

(***************************************************************************)
(* resolveAsset, assetUrl (contentful-helpers.js 25-35)                    *)
(***************************************************************************)
resolveAsset(id, includes) ==
  LET asset == IF Truthy(includes) THEN Get(includes, "Asset") ELSE includes
      list == IF Truthy(asset) THEN asset.elems ELSE <<>>
      i == FindIndex(list, id)
  IN IF i = 0 THEN Null ELSE list[i]

\* the URL as a string value; Thrown when url.startsWith is not a function
assetUrl(asset) ==
  IF ~Truthy(asset) \/ ~Truthy(Get(asset, "fields"))
     \/ ~Truthy(Get(Get(asset, "fields"), "file"))
  THEN Str(<<>>)
  ELSE LET file == unwrap(Get(Get(asset, "fields"), "file"))
           \* file && file.url
           url == IF Truthy(file) THEN Get(file, "url") ELSE file
       IN IF ~Truthy(url) THEN Str(<<>>)
          ELSE IF ~IsString(url) THEN Thrown
          ELSE IF StartsWithSlashSlash(url.chars)
               THEN Str(<<"h", "t", "t", "p", "s", ":">> \o url.chars)
               ELSE url

(***************************************************************************)
(* resolveEmbeddedEntry (contentful-helpers.js 37-47)                      *)
(***************************************************************************)
\* a plausible bug: the target is looked up by its id although it carries the entity
resolveEmbeddedEntry_AlwaysLookup(node, includes, items) ==
  LET target == Get(Get(node, "data"), "target")
  IN IF ~Truthy(target) THEN Null
     ELSE LET id == Get(Get(target, "sys"), "id")
          IN IF ~Truthy(id) THEN Null ELSE resolveEntry(id, includes, items)

resolveEmbeddedEntry(node, includes, items) ==
  LET target == Get(Get(node, "data"), "target")
  IN IF ~Truthy(target) THEN Null
     ELSE IF Truthy(Get(target, "fields")) THEN target
     ELSE LET id == Get(Get(target, "sys"), "id")
          IN IF ~Truthy(id) THEN Null ELSE resolveEntry(id, includes, items)

(***************************************************************************)
(* renderEmbeddedEntry and richTextToHtml (contentful-helpers.js 49-120),  *)
(* with documentToHtmlString of @contentful/rich-text-html-renderer.       *)
(* A call returns a string value, or Thrown.  richTextToHtmlAt carries the *)
(* depth of the nesting of richTextToHtml calls: beyond MaxDepth the call  *)
(* stack is exhausted and the call throws a RangeError.                    *)
(***************************************************************************)
MaxDepth == 5

RichContentBlockDefault ==
  <<"r", "i", "c", "h", "C", "o", "n", "t", "e", "n", "t", "B", "l", "o", "c", "k">>
CtaBlockDefault == <<"c", "t", "a", "B", "l", "o", "c", "k">>
LearnMore == <<"L", "e", "a", "r", "n", " ", "m", "o", "r", "e">>

\* a ++ b of two calls' results: a throw of either is the throw of both
Concat(a, b) == IF a = Thrown \/ b = Thrown THEN Thrown ELSE Str(a.chars \o b.chars)

\* the escape of text nodes by the external renderer (escape-html)
LibEscape(s) ==
  ReplaceAll(ReplaceAll(ReplaceAll(ReplaceAll(ReplaceAll(s,
    "&", "&amp;"), "<", "&lt;"), ">", "&gt;"), "\"", "&quot;"), "'", "&#39;")

BlockTags ==
  [p \in {"paragraph", "heading-2", "heading-3", "blockquote", "unordered-list",
          "ordered-list", "list-item"} |->
     CASE p = "paragraph" -> "p" [] p = "heading-2" -> "h2" [] p = "heading-3" -> "h3"
       [] p = "blockquote" -> "blockquote" [] p = "unordered-list" -> "ul"
       [] p = "ordered-list" -> "ol" [] OTHER -> "li"]

RECURSIVE richTextToHtmlAt(_, _, _, _)
RECURSIVE renderEmbeddedEntry(_, _, _, _)
RECURSIVE nodeListToHtmlString(_, _, _, _)
RECURSIVE nodeToHtmlString(_, _, _, _)

\* (entry.sys?.contentType?.sys?.id || entry.sys?.contentType?.id || '')
ContentTypeOf(entry) ==
  LET ctObj == Get(Get(entry, "sys"), "contentType")
  IN Or(Get(Get(ctObj, "sys"), "id"), Or(Get(ctObj, "id"), Str(<<>>)))

\* (process.env.NAME || dflt).toLowerCase()
TypeId(value, dflt) == ToLowerCase(Or(value, Str(dflt)).chars)

\* the CTA branch of renderEmbeddedEntry (56-67)
RenderCta(f) ==
  LET heading == Or(unwrap(Get(f, "heading")), Or(unwrap(Get(f, "headline")), Str(<<>>)))
      desc == Or(unwrap(Get(f, "description")), Or(unwrap(Get(f, "body")), Str(<<>>)))
      btn == Or(unwrap(Get(f, "buttonText")), Or(unwrap(Get(f, "button_label")),
               Or(unwrap(Get(f, "ctaText")), Str(LearnMore))))
      url == Or(unwrap(Get(f, "buttonUrl")), Or(unwrap(Get(f, "button_url")),
               Or(unwrap(Get(f, "ctaUrl")), Or(unwrap(Get(f, "link")), Str(<<"#">>)))))
      h1 == IF Truthy(heading)
            THEN <<"<h3 class=\"cta-block-heading\">">> \o escapeHtml(heading) \o <<"</h3>">>
            ELSE <<>>
      h2 == IF Truthy(desc)
            THEN <<"<p class=\"cta-block-desc\">">> \o escapeHtml(desc) \o <<"</p>">>
            ELSE <<>>
      h3 == IF Truthy(url) /\ Truthy(btn)
            THEN <<"<a href=\"">> \o escapeAttr(url) \o <<"\" class=\"cta-btn\">">>
                   \o escapeHtml(btn) \o <<"</a>">>
            ELSE <<>>
      h == h1 \o h2 \o h3
  IN IF h # <<>>
     THEN Str(<<"<div class=\"content-block content-block--cta\">">> \o h \o <<"</div>">>)
     ELSE Str(<<>>)

\* the figure of the content-block branch (80-84): '' when no image resolves to a URL
RenderFigure(f, includes) ==
  LET img == unwrap(Get(f, "image"))
      cap == Or(unwrap(Get(f, "caption")), Str(<<>>))
  IN IF Truthy(img) /\ Truthy(Get(img, "sys")) /\ Truthy(Get(Get(img, "sys"), "id"))
     THEN LET a == resolveAsset(Get(Get(img, "sys"), "id"), includes)
              u == assetUrl(a)
          IN IF u = Thrown THEN Thrown
             ELSE IF Truthy(u)
             THEN Str(<<"<figure class=\"content-block-figure\"><img src=\"">> \o u.chars
                      \o <<"\" alt=\"">> \o escapeAttr(cap) \o <<"\" loading=\"lazy\" />">>
                      \o (IF Truthy(cap)
                          THEN <<"<figcaption>">> \o escapeHtml(cap) \o <<"</figcaption>">>
                          ELSE <<>>)
                      \o <<"</figure>">>)
             ELSE Str(<<>>)
     ELSE Str(<<>>)

\* a plausible bug: the wrapper is returned without the test of html
RenderContentBlock_AlwaysWrapped(f, includes, items, depth) ==
  LET rich == Or(unwrap(Get(f, "richText")), Or(unwrap(Get(f, "rich_text")),
                Or(unwrap(Get(f, "body")), unwrap(Get(f, "content")))))
      typeClass == blockTypeClass(Or(unwrap(Get(f, "blockType")), unwrap(Get(f, "block_type"))))
      html0 == IF Truthy(rich) /\ Truthy(Get(rich, "content"))
                  /\ IsArray(Get(rich, "content")) /\ Len(Get(rich, "content").elems) # 0
               THEN richTextToHtmlAt(rich, includes, items, depth + 1)
               ELSE Str(<<>>)
      html == IF html0 = Thrown THEN Thrown ELSE Concat(html0, RenderFigure(f, includes))
      full == IF Truthy(Or(unwrap(Get(f, "fullWidth")), unwrap(Get(f, "full_width"))))
              THEN <<" content-block--full">> ELSE <<>>
  IN IF html = Thrown THEN Thrown
     ELSE Str(<<"<div class=\"">> \o <<"content-block content-block--">> \o typeClass \o full
              \o <<"\">">> \o html.chars \o <<"</div>">>)

\* a plausible bug: the aliases of the rich text are tried from content to rich_text
RenderContentBlock_ContentFirst(f, includes, items, depth) ==
  LET rich == Or(unwrap(Get(f, "content")), Or(unwrap(Get(f, "body")),
                Or(unwrap(Get(f, "richText")), unwrap(Get(f, "rich_text")))))
      typeClass == blockTypeClass(Or(unwrap(Get(f, "blockType")), unwrap(Get(f, "block_type"))))
      html0 == IF Truthy(rich) /\ Truthy(Get(rich, "content"))
                  /\ IsArray(Get(rich, "content")) /\ Len(Get(rich, "content").elems) # 0
               THEN richTextToHtmlAt(rich, includes, items, depth + 1)
               ELSE Str(<<>>)
      html == IF html0 = Thrown THEN Thrown ELSE Concat(html0, RenderFigure(f, includes))
      full == IF Truthy(Or(unwrap(Get(f, "fullWidth")), unwrap(Get(f, "full_width"))))
              THEN <<" content-block--full">> ELSE <<>>
  IN IF html = Thrown THEN Thrown
     ELSE IF Truthy(html)
     THEN Str(<<"<div class=\"">> \o <<"content-block content-block--">> \o typeClass \o full
              \o <<"\">">> \o html.chars \o <<"</div>">>)
     ELSE Str(<<>>)

\* the content-block branch of renderEmbeddedEntry (68-88)
RenderContentBlock(f, includes, items, depth) ==
  LET rich == Or(unwrap(Get(f, "richText")), Or(unwrap(Get(f, "rich_text")),
                Or(unwrap(Get(f, "body")), unwrap(Get(f, "content")))))
      fullWidth == Or(unwrap(Get(f, "fullWidth")), unwrap(Get(f, "full_width")))
      blockType == Or(unwrap(Get(f, "blockType")), unwrap(Get(f, "block_type")))
      typeClass == blockTypeClass(blockType)
      html0 == IF Truthy(rich) /\ Truthy(Get(rich, "content"))
                  /\ IsArray(Get(rich, "content")) /\ Len(Get(rich, "content").elems) # 0
               THEN richTextToHtmlAt(rich, includes, items, depth + 1)
               ELSE Str(<<>>)
      html == IF html0 = Thrown THEN Thrown ELSE Concat(html0, RenderFigure(f, includes))
      base == <<"content-block content-block--">> \o typeClass
      full == IF Truthy(fullWidth) THEN <<" content-block--full">> ELSE <<>>
  IN IF html = Thrown THEN Thrown
     ELSE IF Truthy(html)
     THEN Str(<<"<div class=\"">> \o base \o full \o <<"\">">> \o html.chars \o <<"</div>">>)
     ELSE Str(<<>>)

\* a plausible bug: an entity of another type is rendered as an empty block
renderEmbeddedEntry_EmptyDiv(entry, includes, items, depth) ==
  IF ~Truthy(entry) \/ ~Truthy(Get(entry, "fields")) THEN Str(<<>>)
  ELSE IF ~IsString(ContentTypeOf(entry)) THEN Thrown
  ELSE LET ct == ToLowerCase(ContentTypeOf(entry).chars)
       IN IF ct = TypeId(env.CONTENTFUL_CTA_BLOCK_TYPE, CtaBlockDefault)
          THEN RenderCta(Get(entry, "fields"))
          ELSE IF ct = TypeId(env.CONTENTFUL_RICH_CONTENT_BLOCK_TYPE, RichContentBlockDefault)
               THEN RenderContentBlock(Get(entry, "fields"), includes, items, depth)
          ELSE Str(<<"<div></div>">>)

\* the fourth parameter of the source, richTextToHtmlRef, is always richTextToHtml:
\* here it is the depth at which that function is entered
renderEmbeddedEntry(entry, includes, items, depth) ==
  IF ~Truthy(entry) \/ ~Truthy(Get(entry, "fields")) THEN Str(<<>>)
  ELSE IF ~IsString(ContentTypeOf(entry)) THEN Thrown     \* .toLowerCase is not a function
  ELSE LET ct == ToLowerCase(ContentTypeOf(entry).chars)
           blockTypeId == TypeId(env.CONTENTFUL_RICH_CONTENT_BLOCK_TYPE, RichContentBlockDefault)
           ctaTypeId == TypeId(env.CONTENTFUL_CTA_BLOCK_TYPE, CtaBlockDefault)
       IN IF ct = ctaTypeId THEN RenderCta(Get(entry, "fields"))
          ELSE IF ct = blockTypeId
               THEN RenderContentBlock(Get(entry, "fields"), includes, items, depth)
          ELSE Str(<<>>)

\* renderNode[BLOCKS.EMBEDDED_ASSET] (101-107)
RenderEmbeddedAsset(node, includes) ==
  LET id == Get(Get(Get(Get(node, "data"), "target"), "sys"), "id")
      asset == resolveAsset(id, includes)
      url == assetUrl(asset)
      title == Or(unwrap(Get(Get(asset, "fields"), "title")), Str(<<>>))
  IN IF url = Thrown THEN Thrown
     ELSE IF Truthy(url)
     THEN Str(<<"<img src=\"">> \o url.chars \o <<"\" alt=\"">> \o escapeAttr(title)
              \o <<"\" loading=\"lazy\" />">>)
     ELSE Str(<<>>)

\* renderEmbedded (94-97), the renderer of block and inline embedded entries
renderEmbedded(node, includes, items, depth) ==
  renderEmbeddedEntry(resolveEmbeddedEntry(node, includes, items), includes, items, depth)

MarkTags ==
  [m \in {"bold", "italic", "underline", "code"} |->
     CASE m = "bold" -> "b" [] m = "italic" -> "i" [] m = "underline" -> "u"
       [] OTHER -> "code"]

\* node.marks.reduce((value, mark) => renderMark[mark.type](value), nodeValue):
\* a mark type without a renderer throws
RECURSIVE ApplyMarks(_, _)
ApplyMarks(marks, value) ==
  IF marks = <<>> \/ value = Thrown THEN value
  ELSE LET t == Get(Head(marks), "type")
       IN IF IsString(t) /\ Len(t.chars) = 1 /\ t.chars[1] \in DOMAIN MarkTags
          THEN ApplyMarks(Tail(marks),
                 Str(<<"<" \o MarkTags[t.chars[1]] \o ">">> \o value.chars
                       \o <<"</" \o MarkTags[t.chars[1]] \o ">">>))
          ELSE Thrown

\* nodeToHtmlString of the external renderer, with the renderNode options of 99-114
nodeToHtmlString(node, includes, items, depth) ==
  IF node.kind # "object" THEN Thrown                    \* node.nodeType of null
  ELSE LET t == Get(node, "nodeType")
       IN IF t = Str(<<"text">>)
          THEN IF ~IsArray(Get(node, "marks")) THEN Thrown           \* node.marks.length
               ELSE ApplyMarks(Get(node, "marks").elems,
                               Str(LibEscape(StringOf(Get(node, "value")))))
          ELSE IF ~IsString(t) \/ Len(t.chars) # 1 THEN Str(<<>>)
          ELSE IF t.chars[1] \in {"embedded-entry-block", "embedded-entry-inline"}
               THEN renderEmbedded(node, includes, items, depth)
          ELSE IF t.chars[1] = "embedded-asset-block" THEN RenderEmbeddedAsset(node, includes)
          ELSE IF t.chars[1] = "hr" THEN Str(<<"<hr/>">>)
          ELSE IF t.chars[1] \in DOMAIN BlockTags
               THEN IF ~IsArray(Get(node, "content")) THEN Thrown     \* nodes.map
                    ELSE Concat(Concat(Str(<<"<" \o BlockTags[t.chars[1]] \o ">">>),
                                       nodeListToHtmlString(Get(node, "content").elems,
                                                            includes, items, depth)),
                                Str(<<"</" \o BlockTags[t.chars[1]] \o ">">>))
          ELSE Str(<<>>)                                  \* no renderer for the node type

nodeListToHtmlString(nodes, includes, items, depth) ==
  IF nodes = <<>> THEN Str(<<>>)
  ELSE Concat(nodeToHtmlString(Head(nodes), includes, items, depth),
              nodeListToHtmlString(Tail(nodes), includes, items, depth))

\* documentToHtmlString(doc, options) of the external renderer
documentToHtmlString(doc, includes, items, depth) ==
  IF ~Truthy(doc) \/ ~Truthy(Get(doc, "content")) THEN Str(<<>>)
  ELSE IF ~IsArray(Get(doc, "content")) THEN Thrown
  ELSE nodeListToHtmlString(Get(doc, "content").elems, includes, items, depth)

\* a plausible bug: no try/catch around documentToHtmlString
richTextToHtmlAt_NoCatch(doc, includes, items, depth) ==
  IF depth > MaxDepth THEN Thrown
  ELSE IF ~Truthy(doc) \/ ~Truthy(Get(doc, "content")) THEN Str(<<>>)
  ELSE documentToHtmlString(doc,
         IF includes = Undefined THEN Obj(<<>>) ELSE includes,
         IF items = Undefined THEN Arr(<<>>) ELSE items, depth)

richTextToHtmlAt(doc, includes, items, depth) ==
  IF depth > MaxDepth THEN Thrown              \* RangeError: the call stack is exhausted
  ELSE IF ~Truthy(doc) \/ ~Truthy(Get(doc, "content")) THEN Str(<<>>)
  ELSE LET r == documentToHtmlString(doc,
                  IF includes = Undefined THEN Obj(<<>>) ELSE includes,
                  IF items = Undefined THEN Arr(<<>>) ELSE items, depth)
       IN IF r = Thrown THEN Str(<<>>) ELSE r   \* try { ... } catch (e) { return ''; }

\* richTextToHtml as its callers enter it
richTextToHtml(doc, includes, items) == richTextToHtmlAt(doc, includes, items, 1)

(***************************************************************************)
(* The entities, assets and documents the renderers are called on.         *)
(***************************************************************************)
MaxNodes == 2       \* top-level nodes of a document

\* a field k holding v under one locale; no field when v is undefined
Field(k, v) == IF v = Undefined THEN <<>> ELSE <<Prop(k, Localized(v))>>

Special == <<"<", "&", "\"", "'", ">">>
Hi == <<"H", "i">>

\* process.env with the CTA type renamed
EnvPromo ==
  [EnvDefault EXCEPT !.CONTENTFUL_CTA_BLOCK_TYPE = Str(<<"P", "r", "o", "m", "o">>)]

Asset(id, fields) ==
  Obj(<<Prop("sys", Obj(<<Prop("id", Str(id)), Prop("type", Str(<<"Asset">>))>>)),
        Prop("fields", Obj(fields))>>)

File(url) == Obj(<<Prop("url", Str(url)), Prop("contentType", Str(<<"image/png">>))>>)

PoolAssets ==
  <<Asset(<<"a", "1">>, Field("title", Str(Special)) \o Field("file", File(<<"/", "/", "i">>))),
    Asset(<<"a", "2">>, Field("title", Str(<<"t">>)) \o Field("file", File(<<"/", "q", "\"">>))),
    Asset(<<"a", "3">>, Field("title", Str(<<"t">>)))>>

EmbedBlock(target) == Node("embedded-entry-block", Obj(<<Prop("target", target)>>), <<>>)
EmbedInline(target) == Node("embedded-entry-inline", Obj(<<Prop("target", target)>>), <<>>)
EmbedAsset(target) == Node("embedded-asset-block", Obj(<<Prop("target", target)>>), <<>>)
\* a paragraph without its content array: the external renderer throws on it
Malformed == Obj(<<Prop("nodeType", Str(<<"paragraph">>)), Prop("data", Obj(<<>>))>>)

CtaEntry(id, ct, heading, desc, btn, url) ==
  Entry(id, ct, Field("heading", heading) \o Field("description", desc)
                  \o Field("buttonText", btn) \o Field("buttonUrl", url))

BlockEntry(id, ct, rich, image, caption, fullWidth, blockType) ==
  Entry(id, ct, Field("richText", rich) \o Field("image", image)
                  \o Field("caption", caption) \o Field("fullWidth", fullWidth)
                  \o Field("blockType", blockType))

SeoComponent == <<"s", "e", "o", "C", "o", "m", "p", "o", "n", "e", "n", "t">>

\* includes.Entry: a CTA, an entity of another type, a content block, a content block
\* whose rich text embeds itself, an entity whose content type id is a number
PoolEntries ==
  <<CtaEntry(<<"c", "1">>, CtaBlockDefault, Str(<<"T">>), Undefined, Str(<<"G", "o">>),
             Str(<<"/", "x">>)),
    Entry(<<"k", "1">>, SeoComponent, Field("pageTitle", Str(<<"T">>))),
    BlockEntry(<<"b", "1">>, RichContentBlockDefault, Document(<<Paragraph(Hi)>>),
               Undefined, Undefined, Undefined, Undefined),
    BlockEntry(<<"b", "2">>, RichContentBlockDefault,
               Document(<<Paragraph(Hi), EmbedBlock(LinkStub("Entry", <<"b", "2">>))>>),
               Undefined, Undefined, Undefined, Undefined),
    Obj(<<Prop("sys", Obj(<<Prop("id", Str(<<"n", "1">>)),
                            Prop("contentType", Obj(<<Prop("id", Num(1))>>))>>)),
          Prop("fields", Obj(<<>>))>>)>>

FullIncludes == Includes(PoolEntries, PoolAssets)

CtaEntries ==
  {CtaEntry(<<"c", "9">>, ct, heading, desc, btn, url) :
     ct \in {CtaBlockDefault, <<"C", "T", "A", "B", "L", "O", "C", "K">>},
     heading \in {Undefined, Str(<<"T">>), Str(Special)},
     desc \in {Undefined, Str(<<"d">>)},
     btn \in {Undefined, Str(<<>>), Str(<<"G", "o">>)},
     url \in {Undefined, Str(<<>>), Str(<<"/", "x">>), Str(Special)}}

BlockRichTexts ==
  {Undefined, Document(<<>>), Document(<<Paragraph(Hi)>>),
   Document(<<EmbedBlock(LinkStub("Entry", <<"k", "1">>))>>),
   Document(<<Paragraph(Hi), Malformed>>),
   Document(<<EmbedBlock(LinkStub("Entry", <<"c", "1">>))>>)}

BlockEntries ==
  {BlockEntry(<<"b", "9">>, RichContentBlockDefault, rich, image, caption, fullWidth, blockType) :
     rich \in BlockRichTexts,
     image \in {Undefined} \cup {LinkStub("Asset", <<"a", n>>) : n \in {"1", "2", "3", "9"}},
     caption \in {Undefined, Str(<<"c">>), Str(Special)},
     fullWidth \in {Undefined, Bool(TRUE)},
     blockType \in {Undefined, Str(<<"Q", "u", "o", "t", "e">>), Str(<<"a", " ", " ", "b">>)}}

\* the rich text of a content block under each of its four names: absent, the empty string,
\* or a document of one paragraph that tells the name
AliasDoc(c) == Document(<<Paragraph(<<c>>)>>)

AliasEntries ==
  {Entry(<<"b", "9">>, RichContentBlockDefault,
         Field("content", content) \o Field("body", body) \o Field("richText", richText)
           \o Field("rich_text", rich_text)) :
     content \in {Undefined, Str(<<>>), AliasDoc("c")},
     body \in {Undefined, Str(<<>>), AliasDoc("b")},
     richText \in {Undefined, Str(<<>>), AliasDoc("r")},
     rich_text \in {Undefined, Str(<<>>), AliasDoc("u")}}

OtherEntries ==
  {Entry(<<"k", "9">>, SeoComponent, Field("heading", Str(<<"T">>))),
   Entry(<<"p", "9">>, <<"p", "r", "o", "m", "o">>, Field("heading", Str(<<"T">>))),
   Obj(<<Prop("sys", Obj(<<Prop("id", Str(<<"x", "9">>))>>))>>),      \* no fields
   Null}

(***************************************************************************)
(* One call renderEmbeddedEntry(entry, includes, [], richTextToHtml), as   *)
(* richTextToHtml makes it for an embedded entry.                          *)
(***************************************************************************)
RenderBlock ==
  /\ bPc = "ready"
  /\ bOut' = renderEmbeddedEntry(bEntry, bIncludes, Arr(<<>>), 1)
  /\ bPc' = "done"
  /\ UNCHANGED <<bEntry, bIncludes, notB>>

InitBlock ==
  /\ bEntry \in CtaEntries \cup BlockEntries \cup AliasEntries \cup OtherEntries
  /\ bIncludes \in {FullIncludes, Obj(<<>>)}
  /\ bOut = Undefined
  /\ bPc = "ready"
  /\ env \in {EnvDefault, EnvPromo}
  /\ UnwrapIdle /\ ResolveIdle /\ DocIdle /\ PageIdle /\ FaqIdle /\ RunIdle
  /\ ServerIdle

NextBlock == RenderBlock

SpecBlock == InitBlock /\ [][NextBlock]_vars

(***************************************************************************)
(* Claims about the block renderer.                                        *)
(***************************************************************************)
HasUnit(out, u) == out.kind = "string" /\ \E i \in 1..Len(out.chars) : out.chars[i] = u

\* the entity is rendered by the CTA branch / by the content-block branch
IsCtaEntity(e) ==
  /\ Truthy(e) /\ Truthy(Get(e, "fields")) /\ IsString(ContentTypeOf(e))
  /\ ToLowerCase(ContentTypeOf(e).chars) = TypeId(env.CONTENTFUL_CTA_BLOCK_TYPE, CtaBlockDefault)
IsContentBlockEntity(e) ==
  /\ Truthy(e) /\ Truthy(Get(e, "fields")) /\ IsString(ContentTypeOf(e))
  /\ ~IsCtaEntity(e)
  /\ ToLowerCase(ContentTypeOf(e).chars)
       = TypeId(env.CONTENTFUL_RICH_CONTENT_BLOCK_TYPE, RichContentBlockDefault)

\* one of the aliases of the field holds a non-empty value
HasAny(f, aliases) == \E k \in aliases : Truthy(unwrap(Get(f, k)))
UrlAliases == {"buttonUrl", "button_url", "ctaUrl", "link"}
LabelAliases == {"buttonText", "button_label", "ctaText"}

\* C5: the CTA branch emits the anchor only if the fields hold both a button URL and a
\* button label; a CTA with only heading and description (no button URL) renders the
\* heading and the description but no anchor.
C5_AnchorOnlyWithUrlAndLabel ==
  (bPc = "done" /\ IsCtaEntity(bEntry)) =>
    LET f == Get(bEntry, "fields")
    IN /\ HasUnit(bOut, "<a href=\"") => (HasAny(f, UrlAliases) /\ HasAny(f, LabelAliases))
       /\ (HasAny(f, {"heading"}) /\ HasAny(f, {"description"}) /\ ~HasAny(f, UrlAliases))
            => /\ HasUnit(bOut, "<h3 class=\"cta-block-heading\">")
               /\ HasUnit(bOut, "<p class=\"cta-block-desc\">")
               /\ ~HasUnit(bOut, "<a href=\"")

\* the HTML a wrapper div encloses; <<>> when out is no wrapper div
WrapperInner(out) ==
  IF /\ Len(out) >= 3 /\ out[1] = "<div class=\"" /\ out[Len(out)] = "</div>"
     /\ \E p \in 2..(Len(out) - 1) : out[p] = "\">"
  THEN LET p == CHOOSE q \in 2..(Len(out) - 1) :
                  out[q] = "\">" /\ \A r \in 2..(q - 1) : out[r] # "\">"
       IN SubSeq(out, p + 1, Len(out) - 1)
  ELSE <<>>

\* the rich-text payload of a content block is absent, empty or renders to nothing
RichRendersNothing(f, includes) ==
  LET rich == Or(unwrap(Get(f, "richText")), Or(unwrap(Get(f, "rich_text")),
                Or(unwrap(Get(f, "body")), unwrap(Get(f, "content")))))
  IN \/ ~Truthy(rich)
     \/ ~IsArray(Get(rich, "content"))
     \/ Get(rich, "content").elems = <<>>
     \/ richTextToHtmlAt(rich, includes, Arr(<<>>), 2) = Str(<<>>)

\* the image of a content block resolves to no asset with a URL
NoImageUrl(f, includes) ==
  LET id == Get(Get(unwrap(Get(f, "image")), "sys"), "id")
  IN ~Truthy(id) \/ assetUrl(resolveAsset(id, includes)) = Str(<<>>)

\* C9: the content-block branch returns the empty string when the rich-text payload is
\* empty or renders to nothing and no image resolves to an asset with a URL, and a
\* wrapper div it returns encloses non-empty HTML.
C9_NoEmptyWrapper ==
  (bPc = "done" /\ IsContentBlockEntity(bEntry)) =>
    /\ bOut.kind = "string"
    /\ bOut = Str(<<>>) \/ WrapperInner(bOut.chars) # <<>>
    /\ (RichRendersNothing(Get(bEntry, "fields"), bIncludes)
          /\ NoImageUrl(Get(bEntry, "fields"), bIncludes)) => bOut = Str(<<>>)

\* a block whose rich text holds only an embedded entry of an unknown type, and whose
\* image is a dangling link, has been rendered to the empty string
C9_Witness ==
  /\ bPc = "done" /\ env = EnvDefault /\ bIncludes = FullIncludes
  /\ bEntry = BlockEntry(<<"b", "9">>, RichContentBlockDefault,
                         Document(<<EmbedBlock(LinkStub("Entry", <<"k", "1">>))>>),
                         LinkStub("Asset", <<"a", "9">>), Str(<<"c">>), Bool(TRUE), Undefined)
  /\ bOut = Str(<<>>)

RawSpecial == {"&", "<", ">", "\"", "'"}
AttrOpeners ==
  {"<a href=\"", "<figure class=\"content-block-figure\"><img src=\"", "<img src=\"",
   "\" alt=\""}
AttrClosers == {"\" class=\"cta-btn\">", "\" alt=\"", "\" loading=\"lazy\" />"}

\* unit i of out lies in an attribute value
InAttribute(out, i) ==
  \E j \in 1..(i - 1) :
    out[j] \in AttrOpeners /\ \A k \in (j + 1)..i : out[k] \notin AttrClosers

\* C10: text inserted into an attribute value (href, src, alt) is attribute-escaped,
\* which escapes what HTML escaping escapes (&, <, >, ") and the single quote too;
\* text inserted as element content is HTML-escaped.
C10_AttributesEscaped ==
  (bPc = "done" /\ bOut.kind = "string") =>
    \A i \in 1..Len(bOut.chars) :
      IF InAttribute(bOut.chars, i)
      THEN bOut.chars[i] \notin RawSpecial
      ELSE bOut.chars[i] \notin RawSpecial \ {"'"}

(***************************************************************************)
(* One call richTextToHtml(doc, includes, items).                          *)
(***************************************************************************)
DocNodes ==
  {Paragraph(Hi), Paragraph(Special),
   Node("paragraph", Obj(<<>>), <<TextNode(Hi), EmbedInline(LinkStub("Entry", <<"c", "1">>))>>),
   EmbedBlock(Titled(<<"k", "9">>, SeoComponent)),      \* a target that carries the entity
   EmbedBlock(PoolEntries[1]),                          \* the CTA c1 of the pool, carried
   \* a CTA carried by the target under the id k1, which the pools give to other entities
   EmbedBlock(CtaEntry(<<"k", "1">>, CtaBlockDefault, Str(<<"U">>), Undefined, Undefined,
                       Undefined)),
   EmbedAsset(LinkStub("Asset", <<"a", "1">>)), EmbedAsset(LinkStub("Asset", <<"a", "9">>)),
   Malformed}
    \cup {EmbedBlock(LinkStub("Entry", id)) :
            id \in {<<"c", "1">>, <<"k", "1">>, <<"b", "2">>, <<"n", "1">>, <<"z", "9">>}}

\* items in which the id k1 is a CTA, while includes.Entry has it as an SEO component
ItemsWithK1 ==
  Arr(<<CtaEntry(<<"k", "1">>, CtaBlockDefault, Str(<<"T">>), Undefined, Undefined, Undefined)>>)

RenderDoc ==
  /\ dPc = "ready"
  /\ dOut' = richTextToHtml(dDoc, dIncludes, dItems)
  /\ dPc' = "done"
  /\ UNCHANGED <<dDoc, dIncludes, dItems, notD>>

InitDoc ==
  /\ dDoc \in {Document(q) : q \in SeqsUpTo(DocNodes, MaxNodes)}
  /\ \E pools \in {<<FullIncludes, Arr(<<>>)>>, <<FullIncludes, ItemsWithK1>>,
                     <<Undefined, Undefined>>} :
       dIncludes = pools[1] /\ dItems = pools[2]
  /\ dOut = Undefined
  /\ dPc = "ready"
  /\ env \in {EnvDefault, EnvPromo}
  /\ UnwrapIdle /\ ResolveIdle /\ BlockIdle /\ PageIdle /\ FaqIdle /\ RunIdle
  /\ ServerIdle

NextDoc == RenderDoc

SpecDoc == InitDoc /\ [][NextDoc]_vars

(***************************************************************************)
(* Claims about the rich-text renderer.                                    *)
(***************************************************************************)
DocContent == Get(dDoc, "content").elems

IsEmbeddedEntry(node) ==
  Get(node, "nodeType") \in {Str(<<"embedded-entry-block">>), Str(<<"embedded-entry-inline">>)}

\* the entity is one whose declared type is neither of the two block types
IsOtherType(e) ==
  /\ Truthy(e) /\ Truthy(Get(e, "fields")) /\ IsString(ContentTypeOf(e))
  /\ ~IsCtaEntity(e) /\ ~IsContentBlockEntity(e)

\* the sequence q without its element i
Without(q, i) == SubSeq(q, 1, i - 1) \o SubSeq(q, i + 1, Len(q))

\* C6: an entity whose declared type is neither the content-block type nor the CTA type
\* (compared case-insensitively) renders to the empty string without an error, and in a
\* document an embedded-entry node that resolves to such an entity contributes the
\* empty string: the document renders as it does without that node.
C6_UnknownTypeDropped ==
  dPc = "done" =>
    \A i \in 1..Len(DocContent) :
      LET e == resolveEmbeddedEntry(DocContent[i], dIncludes, dItems)
      IN (IsEmbeddedEntry(DocContent[i]) /\ IsOtherType(e)) =>
           /\ renderEmbeddedEntry(e, dIncludes, dItems, 1) = Str(<<>>)
           /\ dOut = richTextToHtml(Document(Without(DocContent, i)), dIncludes, dItems)

\* a paragraph and an embedded SEO component have been rendered to the paragraph alone
C6_Witness ==
  /\ dPc = "done" /\ env = EnvDefault
  /\ dIncludes = FullIncludes /\ dItems = Arr(<<>>)
  /\ dDoc = Document(<<EmbedBlock(LinkStub("Entry", <<"k", "1">>)), Paragraph(Hi)>>)
  /\ dOut = Str(<<"<p>", "H", "i", "</p>">>)

\* C8: when the recursive render (documentToHtmlString) throws, richTextToHtml returns
\* the empty string for that document, and it never throws.
C8_ThrowBecomesEmpty ==
  dPc = "done" =>
    /\ dOut.kind = "string"
    /\ documentToHtmlString(dDoc, IF dIncludes = Undefined THEN Obj(<<>>) ELSE dIncludes,
                            IF dItems = Undefined THEN Arr(<<>>) ELSE dItems, 1) = Thrown
         => dOut = Str(<<>>)

\* a document of a good paragraph and a malformed node has been rendered to ''
C8_Witness ==
  /\ dPc = "done"
  /\ dDoc = Document(<<Paragraph(Hi), Malformed>>)
  /\ dOut = Str(<<>>)

(***************************************************************************)
(* Field extractors (contentful-helpers.js 146-175, 266-325) and the       *)
(* reference resolvers of the generator (generate-resources.js 176-188).   *)
(* A call that throws yields Thrown.                                       *)
(***************************************************************************)
\* ref && ref.sys && ref.sys.id
RefId(ref) ==
  IF ~Truthy(ref) THEN ref
  ELSE IF ~Truthy(Get(ref, "sys")) THEN Get(ref, "sys")
  ELSE Get(Get(ref, "sys"), "id")

\* entry.fields || {}
FieldsOf(entry) == Or(Get(entry, "fields"), Obj(<<>>))

resolveSeoRef(entry, includes, items) ==
  LET f == FieldsOf(entry)
      ref == Or(unwrap(Get(f, "seoFields")), unwrap(Get(f, "seo")))
      id == RefId(ref)
  IN IF Truthy(id) THEN resolveEntry(id, includes, items) ELSE Null

\* a plausible bug: an author that resolves nowhere becomes the first included entity
resolveAuthorRef_FirstIncluded(entry, includes, items) ==
  LET id == RefId(unwrap(Get(FieldsOf(entry), "author")))
      pool == IF Truthy(includes) /\ IsArray(Get(includes, "Entry"))
              THEN Get(includes, "Entry").elems ELSE <<>>
  IN IF ~Truthy(id) THEN Null
     ELSE IF resolveEntry(id, includes, items) # Null THEN resolveEntry(id, includes, items)
     ELSE IF pool # <<>> THEN pool[1] ELSE Null

resolveAuthorRef(entry, includes, items) ==
  LET f == FieldsOf(entry)
      ref == unwrap(Get(f, "author"))
      id == RefId(ref)
  IN IF Truthy(id) THEN resolveEntry(id, includes, items) ELSE Null

\* shareImages with one more URL in front, which is pushed when it is not ''
PushUrl(url, rest) ==
  IF url = Thrown \/ rest = Thrown THEN Thrown
  ELSE Arr((IF Truthy(url) THEN <<url>> ELSE <<>>) \o rest.elems)

\* the URL of the asset a reference names, '' when it names none
RefAssetUrl(img, includes) ==
  IF Truthy(RefId(img)) THEN assetUrl(resolveAsset(RefId(img), includes)) ELSE Str(<<>>)

\* the loop of getSeo (158-165): the URLs of the share images that resolve
RECURSIVE ShareImageUrls(_, _)
ShareImageUrls(raw, includes) ==
  IF raw = <<>> THEN Arr(<<>>)
  ELSE PushUrl(RefAssetUrl(Head(raw), includes), ShareImageUrls(Tail(raw), includes))

\* the record getSeo returns (167-174)
SeoRecord(f, shareImages) ==
  IF shareImages = Thrown THEN Thrown
  ELSE Obj(<<Prop("pageTitle", unwrap(Get(f, "pageTitle"))),
             Prop("pageDescription", unwrap(Get(f, "pageDescription"))),
             Prop("canonicalUrl", unwrap(Get(f, "canonicalUrl"))),
             Prop("noindex", unwrap(Get(f, "noindex"))),
             Prop("nofollow", unwrap(Get(f, "nofollow"))),
             Prop("shareImages", shareImages)>>)

\* shareImages of getSeo (155-166)
ShareImages(shareImagesRaw, includes) ==
  IF IsArray(shareImagesRaw) THEN ShareImageUrls(shareImagesRaw.elems, includes)
  ELSE Arr(<<>>)

getSeo(seoEntry, includes) ==
  IF ~Truthy(seoEntry) \/ ~Truthy(Get(seoEntry, "fields")) THEN Obj(<<>>)
  ELSE SeoRecord(Get(seoEntry, "fields"),
                 ShareImages(Or(unwrap(Get(Get(seoEntry, "fields"), "shareImages")), Arr(<<>>)),
                             IF includes = Undefined THEN Obj(<<>>) ELSE includes))

getFeaturedImageUrl(entry, includes) ==
  IF ~Truthy(entry) \/ ~Truthy(Get(entry, "fields")) THEN Str(<<>>)
  ELSE RefAssetUrl(Or(unwrap(Get(Get(entry, "fields"), "featuredImage")),
                      unwrap(Get(Get(entry, "fields"), "featured_image"))), includes)

\* the record getAuthor returns (284-297)
AuthorRecord(f, name, avatarUrl) ==
  IF ~Truthy(name) THEN Null
  ELSE IF avatarUrl = Thrown THEN Thrown
  ELSE Obj(<<Prop("name", name), Prop("avatarUrl", avatarUrl),
             Prop("bio", Or(unwrap(Get(f, "bio")), Str(<<>>))),
             Prop("roleCompany", Or(unwrap(Get(f, "roleCompany")),
                                    Or(unwrap(Get(f, "role_company")), Str(<<>>))))>>)

getAuthor(authorEntry, includes) ==
  IF ~Truthy(authorEntry) \/ ~Truthy(Get(authorEntry, "fields")) THEN Null
  ELSE AuthorRecord(Get(authorEntry, "fields"),
                    unwrap(Get(Get(authorEntry, "fields"), "name")),
                    RefAssetUrl(unwrap(Get(Get(authorEntry, "fields"), "avatar")),
                                IF includes = Undefined THEN Obj(<<>>) ELSE includes))

\* the markup of one result block (314-322), '' when nothing is pushed to parts; u is
\* the URL of its graph
ResultMarkup(label, value, desc, u) ==
  IF u = Thrown THEN Thrown
  ELSE IF ~Truthy(label) /\ ~Truthy(value) /\ ~Truthy(desc) /\ ~Truthy(u) THEN Str(<<>>)
  ELSE Str(<<"<div class=\"result-block\">">>
           \o (IF Truthy(label) \/ Truthy(value)
               THEN <<"<p class=\"result-metric\"><strong>">>
                      \o escapeHtml(Or(value, Str(<<>>))) \o <<"</strong> ">>
                      \o escapeHtml(Or(label, Str(<<>>))) \o <<"</p>">>
               ELSE <<>>)
           \o (IF Truthy(desc) THEN <<"<p>">> \o escapeHtml(desc) \o <<"</p>">> ELSE <<>>)
           \o (IF Truthy(u)
               THEN <<"<img src=\"">> \o u.chars \o <<"\" alt=\"">>
                      \o escapeAttr(Or(label, Str(<<"Result">>)))
                      \o <<"\" class=\"results-graph\" loading=\"lazy\" />">>
               ELSE <<>>)
           \o <<"</div>">>)

\* the fields of a result block entry as the loop reads them (309-322)
ResultFieldsHtml(f, includes) ==
  ResultMarkup(unwrap(Get(f, "metricLabel")), unwrap(Get(f, "metricValue")),
               unwrap(Get(f, "description")),
               RefAssetUrl(unwrap(Get(f, "graphImage")), includes))

\* the body of the loop of buildResultsFromResultBlocks (308-322) for a resolved entry
ResultEntryHtml(entry, includes) ==
  IF ~Truthy(entry) \/ ~Truthy(Get(entry, "fields")) THEN Str(<<>>)
  ELSE ResultFieldsHtml(Get(entry, "fields"), includes)

ResultBlockHtml(id, includes, items) ==
  ResultEntryHtml(resolveEntry(id, includes, items), includes)

\* parts.join(sep)
RECURSIVE Join(_, _)
Join(parts, sep) ==
  IF parts = <<>> THEN <<>>
  ELSE IF Len(parts) = 1 THEN parts[1]
  ELSE parts[1] \o sep \o Join(Tail(parts), sep)

\* parts with one more part in front, which is pushed when it is not ''
PushFront(part, rest) ==
  IF part = Thrown \/ rest = Thrown THEN Thrown
  ELSE Arr((IF Truthy(part) THEN <<part.chars>> ELSE <<>>) \o rest.elems)

\* the parts of buildResultsFromResultBlocks, for the references that carry an id (305)
RECURSIVE ResultParts(_, _, _)
ResultParts(refs, includes, items) ==
  IF refs = <<>> THEN Arr(<<>>)
  ELSE PushFront(IF Truthy(RefId(Head(refs)))
                 THEN ResultBlockHtml(RefId(Head(refs)), includes, items)
                 ELSE Str(<<>>),
                 ResultParts(Tail(refs), includes, items))

\* parts.join('\n') of the parts
JoinParts(parts) == IF parts = Thrown THEN Thrown ELSE Str(Join(parts.elems, <<"\n">>))

buildResultsFromResultBlocks(refs, includes, items) ==
  IF ~IsArray(refs) THEN Str(<<>>)
  ELSE JoinParts(ResultParts(refs.elems, includes,
                             IF items = Undefined THEN Arr(<<>>) ELSE items))

(***************************************************************************)
(* The detail pages of the generator (generate-resources.js 240-370 and    *)
(* 448-505).  A page is the record of what the code computes for it: the   *)
(* slug of its directory, the arguments of baseHead, and the markup of its *)
(* container, in which every literal of the template is one unit.          *)
(***************************************************************************)
BASE == <<"https://theseopilot.pro">>

\* encodeURIComponent: the unreserved characters stay, the others of the data become %XX
EncodeChar(c) ==
  CASE c = " " -> "%20" [] c = "\"" -> "%22" [] c = "&" -> "%26" [] c = "/" -> "%2F"
    [] c = "<" -> "%3C" [] c = ">" -> "%3E" [] c = "?" -> "%3F" [] c = "#" -> "%23"
    [] OTHER -> c

encodeURIComponent(v) == LET s == StringOf(v) IN [i \in 1..Len(s) |-> EncodeChar(s[i])]

\* s.split(',')
RECURSIVE Split(_, _)
Split(s, cur) ==
  IF s = <<>> THEN <<cur>>
  ELSE IF Head(s) = "," THEN <<cur>> \o Split(Tail(s), <<>>)
  ELSE Split(Tail(s), Append(cur, Head(s)))

\* s.trim()
RECURSIVE Trim(_)
Trim(s) ==
  IF s = <<>> THEN s
  ELSE IF IsWhitespace(Head(s)) THEN Trim(Tail(s))
  ELSE IF IsWhitespace(s[Len(s)]) THEN Trim(SubSeq(s, 1, Len(s) - 1))
  ELSE s

\* the characters of a field id as the name of a property
RECURSIVE NameOf(_)
NameOf(s) == IF s = <<>> THEN "" ELSE Head(s) \o NameOf(Tail(s))

\* (process.env.X || dflt).split(',').map((s) => s.trim()).filter(Boolean)
FieldIds(setting, dflt) ==
  LET parts == Split(IF Truthy(setting) THEN setting.chars ELSE dflt, <<>>)
      trimmed == [i \in 1..Len(parts) |-> NameOf(Trim(parts[i]))]
  IN SelectSeq(trimmed, LAMBDA n : n # "")

ContentFieldDefault ==
  <<"c", "o", "n", "t", "e", "n", "t", ",", "b", "o", "d", "y", ",",
    "m", "a", "i", "n", "C", "o", "n", "t", "e", "n", "t", ",",
    "m", "a", "i", "n", "_", "c", "o", "n", "t", "e", "n", "t">>

FaqsFieldDefault == <<"f", "a", "q", "s">>

\* typeof val === 'object'
IsObjectType(v) == v.kind \in {"object", "array", "null"}

\* the loop 247-253: the value of the first field that holds a rich-text document
RECURSIVE FirstContentRich(_, _)
FirstContentRich(f, ids) ==
  IF ids = <<>> THEN Null
  ELSE LET val == unwrap(Get(f, Head(ids)))
       IN IF Truthy(val) /\ IsObjectType(val)
             /\ (Get(val, "nodeType") = Str(<<"document">>) \/ IsArray(Get(val, "content")))
          THEN val
          ELSE FirstContentRich(f, Tail(ids))

\* the loop 283-289: the value of the first field that holds a document with content
RECURSIVE FirstFaqsRich(_, _)
FirstFaqsRich(f, ids) ==
  IF ids = <<>> THEN Null
  ELSE LET val == unwrap(Get(f, Head(ids)))
       IN IF Truthy(val) /\ Truthy(Get(val, "content")) /\ IsArray(Get(val, "content"))
             /\ Len(Get(val, "content").elems) > 0
          THEN val
          ELSE FirstFaqsRich(f, Tail(ids))

\* (seo.shareImages && seo.shareImages[0]) || ''
FirstShareImage(seo) ==
  LET imgs == Get(seo, "shareImages")
  IN IF Truthy(imgs) /\ Len(imgs.elems) > 0 THEN Or(imgs.elems[1], Str(<<>>)) ELSE Str(<<>>)

\* the author box (270-272)
AuthorHtml(author) ==
  IF ~Truthy(author) THEN <<>>
  ELSE <<"<div class=\"blog-author\"><div class=\"blog-author-inner\">">>
       \o (IF Truthy(Get(author, "avatarUrl"))
           THEN <<"<img src=\"">> \o escapeAttr(Get(author, "avatarUrl"))
                  \o <<"\" alt=\"\" class=\"blog-author-avatar\" loading=\"lazy\" />">>
           ELSE <<>>)
       \o <<"<div><span class=\"blog-author-name\">">> \o escapeHtml(Get(author, "name"))
       \o <<"</span>">>
       \o (IF Truthy(Get(author, "roleCompany"))
           THEN <<"<span class=\"blog-author-role\">">>
                  \o escapeHtml(Get(author, "roleCompany")) \o <<"</span>">>
           ELSE <<>>)
       \o (IF Truthy(Get(author, "bio"))
           THEN <<"<p class=\"blog-author-bio\">">> \o escapeHtml(Get(author, "bio"))
                  \o <<"</p>">>
           ELSE <<>>)
       \o <<"</div></div></div>">>

\* no page is written for the entry
NoPage == [kind |-> "none"]

Suffix == <<" | TheSEOPilot">>

(***************************************************************************)
(* extractFaqPairs, buildFaqSchema (contentful-helpers.js 183-250)         *)
(***************************************************************************)
MaxFaqNodes == 3    \* top-level nodes of an enumerated FAQ document

\* ['heading-2', 'heading-3', 'heading-4', 'heading-5', 'heading-6']
headingTypes ==
  {Str(<<"heading-2">>), Str(<<"heading-3">>), Str(<<"heading-4">>),
   Str(<<"heading-5">>), Str(<<"heading-6">>)}

\* the characters of the text of a node and of the nodes below it
RECURSIVE textFromNode(_)
RECURSIVE TextFromNodes(_)
textFromNode(node) ==
  IF ~Truthy(node) THEN <<>>
  ELSE IF Get(node, "nodeType") = Str(<<"text">>)
       THEN Or(Get(node, "value"), Str(<<>>)).chars
  ELSE IF Truthy(Get(node, "content")) /\ IsArray(Get(node, "content"))
       THEN TextFromNodes(Get(node, "content").elems)
  ELSE <<>>

\* node.content.map(textFromNode).join('')
TextFromNodes(nodes) ==
  IF nodes = <<>> THEN <<>>
  ELSE textFromNode(Head(nodes)) \o TextFromNodes(Tail(nodes))

\* { question, answer }
FaqPair(question, answer) ==
  Obj(<<Prop("question", Str(question)), Prop("answer", Str(answer))>>)

\* a plausible bug: a question is kept although no answer follows it
flushPair_KeepOrphan(pairs, currentQuestion, currentAnswerParts) ==
  IF Truthy(currentQuestion)
  THEN Append(pairs, FaqPair(Trim(currentQuestion.chars),
                             Trim(Join(currentAnswerParts, <<" ">>))))
  ELSE pairs

\* the pairs after flushPair(); it also resets currentQuestion and currentAnswerParts
flushPair(pairs, currentQuestion, currentAnswerParts) ==
  IF Truthy(currentQuestion) /\ Len(currentAnswerParts) > 0
  THEN Append(pairs, FaqPair(Trim(currentQuestion.chars),
                             Trim(Join(currentAnswerParts, <<" ">>))))
  ELSE pairs

\* a plausible bug: the paragraphs and lists before the first heading are kept and become
\* the start of the first answer
RECURSIVE FaqScan_OrphanPartsKept(_, _, _, _)
FaqScan_OrphanPartsKept(nodes, pairs, currentQuestion, currentAnswerParts) ==
  IF nodes = <<>> THEN flushPair(pairs, currentQuestion, currentAnswerParts)
  ELSE IF Get(Head(nodes), "nodeType") \in headingTypes
       THEN FaqScan_OrphanPartsKept(
              Tail(nodes), flushPair(pairs, currentQuestion, currentAnswerParts),
              Str(textFromNode(Head(nodes))),
              IF Truthy(currentQuestion) THEN <<>> ELSE currentAnswerParts)
  ELSE IF Get(Head(nodes), "nodeType") \in
            {Str(<<"paragraph">>), Str(<<"unordered-list">>), Str(<<"ordered-list">>)}
       THEN FaqScan_OrphanPartsKept(Tail(nodes), pairs, currentQuestion,
                                    Append(currentAnswerParts, textFromNode(Head(nodes))))
  ELSE FaqScan_OrphanPartsKept(Tail(nodes), pairs, currentQuestion, currentAnswerParts)

\* a plausible bug: a node that is neither a heading nor a paragraph or list ends the pair
RECURSIVE FaqScan_OtherNodeCloses(_, _, _, _)
FaqScan_OtherNodeCloses(nodes, pairs, currentQuestion, currentAnswerParts) ==
  IF nodes = <<>> THEN flushPair(pairs, currentQuestion, currentAnswerParts)
  ELSE IF Get(Head(nodes), "nodeType") \in headingTypes
       THEN FaqScan_OtherNodeCloses(
              Tail(nodes), flushPair(pairs, currentQuestion, currentAnswerParts),
              Str(textFromNode(Head(nodes))), <<>>)
  ELSE IF Get(Head(nodes), "nodeType") \in
            {Str(<<"paragraph">>), Str(<<"unordered-list">>), Str(<<"ordered-list">>)}
       THEN FaqScan_OtherNodeCloses(Tail(nodes), pairs, currentQuestion,
                                    IF Truthy(currentQuestion)
                                    THEN Append(currentAnswerParts, textFromNode(Head(nodes)))
                                    ELSE currentAnswerParts)
  ELSE FaqScan_OtherNodeCloses(Tail(nodes),
                               flushPair(pairs, currentQuestion, currentAnswerParts),
                               Null, <<>>)

\* the loop over doc.content and the last flushPair()
RECURSIVE FaqScan(_, _, _, _)
FaqScan(nodes, pairs, currentQuestion, currentAnswerParts) ==
  IF nodes = <<>> THEN flushPair(pairs, currentQuestion, currentAnswerParts)
  ELSE IF Get(Head(nodes), "nodeType") \in headingTypes
       THEN FaqScan(Tail(nodes), flushPair(pairs, currentQuestion, currentAnswerParts),
                    Str(textFromNode(Head(nodes))), <<>>)
  ELSE IF Get(Head(nodes), "nodeType") \in
            {Str(<<"paragraph">>), Str(<<"unordered-list">>), Str(<<"ordered-list">>)}
       THEN FaqScan(Tail(nodes), pairs, currentQuestion,
                    IF Truthy(currentQuestion)
                    THEN Append(currentAnswerParts, textFromNode(Head(nodes)))
                    ELSE currentAnswerParts)
  ELSE FaqScan(Tail(nodes), pairs, currentQuestion, currentAnswerParts)

extractFaqPairs(doc) ==
  IF ~Truthy(doc) \/ ~Truthy(Get(doc, "content")) \/ ~IsArray(Get(doc, "content"))
  THEN Arr(<<>>)
  ELSE Arr(FaqScan(Get(doc, "content").elems, <<>>, Null, <<>>))

\* (p) => ({ '@type': 'Question', name, acceptedAnswer: { '@type': 'Answer', text } })
QuestionOf(p) ==
  Obj(<<Prop("@type", Str(<<"Question">>)), Prop("name", Get(p, "question")),
        Prop("acceptedAnswer",
             Obj(<<Prop("@type", Str(<<"Answer">>)), Prop("text", Get(p, "answer"))>>))>>)

\* pairs.map(...)
RECURSIVE MapQuestions(_)
MapQuestions(pairs) ==
  IF pairs = <<>> THEN <<>> ELSE <<QuestionOf(Head(pairs))>> \o MapQuestions(Tail(pairs))

\* a plausible bug: a FAQPage without questions instead of null
buildFaqSchema_EmptyPage(pairs) ==
  IF ~Truthy(pairs) THEN Null
  ELSE Obj(<<Prop("@type", Str(<<"FAQPage">>)),
             Prop("mainEntity", Arr(MapQuestions(pairs.elems)))>>)

buildFaqSchema(pairs) ==
  IF ~Truthy(pairs) \/ Len(pairs.elems) = 0 THEN Null
  ELSE Obj(<<Prop("@type", Str(<<"FAQPage">>)),
             Prop("mainEntity", Arr(MapQuestions(pairs.elems)))>>)

(***************************************************************************)
(* The structured data and the page of a post.                             *)
(***************************************************************************)
\* the '@type': 'Article' node of schemaGraph (303-317); datePublished and dateModified,
\* like the date of the meta row, are left out
ArticleNode(title, seoDescription, canonical, author, ogImageUrl) ==
  Obj(<<Prop("@type", Str(<<"Article">>)), Prop("headline", title),
        Prop("description", seoDescription), Prop("url", canonical),
        Prop("author",
             IF Truthy(author)
             THEN Obj(<<Prop("@type", Str(<<"Person">>)), Prop("name", Get(author, "name"))>>)
             ELSE Obj(<<Prop("@type", Str(<<"Organization">>)),
                        Prop("name", Str(<<"TheSEOPilot">>))>>)),
        Prop("publisher",
             Obj(<<Prop("@type", Str(<<"Organization">>)),
                   Prop("name", Str(<<"TheSEOPilot">>)),
                   Prop("logo",
                        Obj(<<Prop("@type", Str(<<"ImageObject">>)),
                              Prop("url", Str(BASE \o <<"/assets/img/logo-footer.webp">>))>>))>>))>>
        \o (IF Truthy(ogImageUrl) THEN <<Prop("image", ogImageUrl)>> ELSE <<>>))

\* { '@type': 'ListItem', position, name, item }
ListItem(position, name, item) ==
  Obj(<<Prop("@type", Str(<<"ListItem">>)), Prop("position", Num(position)),
        Prop("name", name), Prop("item", item)>>)

\* the '@type': 'BreadcrumbList' node of schemaGraph (318-326)
BreadcrumbNode(title, canonical) ==
  Obj(<<Prop("@type", Str(<<"BreadcrumbList">>)),
        Prop("itemListElement",
             Arr(<<ListItem(1, Str(<<"Home">>), Str(BASE \o <<"/">>)),
                   ListItem(2, Str(<<"Resources">>), Str(BASE \o <<"/resources/">>)),
                   ListItem(3, Str(<<"Blog">>), Str(BASE \o <<"/resources/blog/">>)),
                   ListItem(4, title, canonical)>>))>>)

\* articleSchema (302-335): the two nodes, then faqSchema when it is not null
ArticleSchema(article, breadcrumb, faqSchema) ==
  Obj(<<Prop("@context", Str(<<"https://schema.org">>)),
        Prop("@graph",
             Arr(<<article, breadcrumb>>
                   \o (IF Truthy(faqSchema) THEN <<faqSchema>> ELSE <<>>)))>>)

\* the JSON-LD script tags baseHead puts in the head for opts.schemaJson (141, 154); json
\* is the object handed to JSON.stringify, its text is not modelled
JsonLdTags(schemaJson) ==
  IF Truthy(schemaJson)
  THEN <<[open |-> "<script type=\"application/ld+json\">", json |-> schemaJson,
          close |-> "</script>"]>>
  ELSE <<>>

\* the page of one iteration of the loop of generateBlog, from its constants (261-369)
BlogPage(slug, title, subtitle, body, faqsHtml, faqSchema, seo, author, featuredImageUrl) ==
  IF seo = Thrown \/ author = Thrown \/ featuredImageUrl = Thrown THEN Thrown
  ELSE
    LET seoTitle == Or(Get(seo, "pageTitle"), title)
        seoDescription == Or(Get(seo, "pageDescription"), subtitle)
        canonical == Or(Get(seo, "canonicalUrl"),
                        Str(BASE \o <<"/resources/blog/">> \o encodeURIComponent(slug)
                              \o <<"/">>))
        seoShareImage == FirstShareImage(seo)
        featuredImageAbsolute ==
          IF ~Truthy(featuredImageUrl) THEN Str(<<>>)
          ELSE IF StartsWithSlashSlash(featuredImageUrl.chars)
               THEN Str(<<"h", "t", "t", "p", "s", ":">> \o featuredImageUrl.chars)
               ELSE featuredImageUrl
        ogImageUrl == Or(featuredImageAbsolute, seoShareImage)
    IN IF ~IsString(seoDescription) THEN Thrown            \* description.slice (128-130)
       ELSE IF ~IsString(slug) THEN Thrown                 \* path.join (368)
       ELSE
         [kind |-> "page",
          slug |-> slug.chars,
          title |-> StringOf(seoTitle) \o Suffix,
          description |-> seoDescription.chars,
          canonical |-> StringOf(canonical),
          ogType |-> <<"article">>,
          ogImage |-> ogImageUrl.chars,
          noindex |-> Truthy(Get(seo, "noindex")),
          nofollow |-> Truthy(Get(seo, "nofollow")),
          schemaAuthor |-> IF Truthy(author) THEN StringOf(Get(author, "name"))
                           ELSE <<"TheSEOPilot">>,
          jsonLd |-> JsonLdTags(ArticleSchema(
                       ArticleNode(title, seoDescription, canonical, author, ogImageUrl),
                       BreadcrumbNode(title, canonical), faqSchema)),
          main |->
            <<"<h1 class=\"blog-post-title\">">> \o escapeHtml(title) \o <<"</h1>">>
            \o (IF Truthy(subtitle)
                THEN <<"<p class=\"blog-post-subtitle\">">> \o escapeHtml(subtitle)
                       \o <<"</p>">>
                ELSE <<>>)
            \o (IF Truthy(featuredImageAbsolute)
                THEN <<"<figure class=\"blog-featured-image\"><img src=\"">>
                       \o escapeAttr(featuredImageAbsolute) \o <<"\" alt=\"">>
                       \o escapeAttr(title) \o <<"\" loading=\"eager\" /></figure>">>
                ELSE <<>>)
            \o <<"<div class=\"blog-meta-row\">">> \o AuthorHtml(author) \o <<"</div>">>
            \o <<"<div class=\"blog-content\">">>
            \o (IF Truthy(body) THEN body.chars
                ELSE <<"<p class=\"blog-content-empty\">No content yet.</p>">>)
            \o <<"</div>">>
            \o faqsHtml.chars]

\* the FAQ section of a post (281-292)
FaqsHtml(f, includes, apiItems) ==
  LET faqsRich == FirstFaqsRich(f, FieldIds(env.CONTENTFUL_FAQS_FIELD, FaqsFieldDefault))
  IN IF Truthy(faqsRich)
     THEN Str(<<"<section class=\"blog-faqs\" aria-labelledby=\"faqs-heading\">",
                "<h2 id=\"faqs-heading\" class=\"faqs-heading\">Frequently Asked Questions</h2>",
                "<div class=\"faq-content blog-content\">">>
              \o richTextToHtml(faqsRich, includes, apiItems).chars
              \o <<"</div></section>">>)
     ELSE Str(<<>>)

\* faqPairs and faqSchema of a post (294-295)
FaqPairsOf(faqsRich) == IF Truthy(faqsRich) THEN extractFaqPairs(faqsRich) ELSE Arr(<<>>)

FaqSchemaOf(f) ==
  buildFaqSchema(FaqPairsOf(FirstFaqsRich(f, FieldIds(env.CONTENTFUL_FAQS_FIELD,
                                                      FaqsFieldDefault))))

\* the body of a post (245-254)
BlogBody(f, includes, apiItems) ==
  LET contentRich == FirstContentRich(f, FieldIds(env.CONTENTFUL_CONTENT_FIELD,
                                                  ContentFieldDefault))
  IN IF Truthy(contentRich) /\ Truthy(Get(contentRich, "content"))
     THEN richTextToHtml(contentRich, includes, apiItems)
     ELSE Str(<<>>)

\* one iteration of the loop of generateBlog (240-370) up to the arguments of baseHead and
\* the container of the post; Thrown when the iteration throws.  Each constant of the
\* iteration is evaluated once.
BlogPost(it, includes, apiItems) ==
  LET f == FieldsOf(it)
  IN CHOOSE page \in
       {BlogPage(slug, title, subtitle, body, faqsHtml, faqSchema, seo, author,
                 featuredImageUrl) :
          slug \in {Or(unwrap(Get(f, "slug")), Or(Get(Get(it, "sys"), "id"), Str(<<"post">>)))},
          title \in {Or(unwrap(Get(f, "title")), Str(<<"Untitled">>))},
          subtitle \in {Or(unwrap(Get(f, "subtitle")), Str(<<>>))},
          body \in {BlogBody(f, includes, apiItems)},
          faqsHtml \in {FaqsHtml(f, includes, apiItems)},
          faqSchema \in {FaqSchemaOf(f)},
          seo \in {getSeo(resolveSeoRef(it, includes, apiItems), includes)},
          author \in {getAuthor(resolveAuthorRef(it, includes, apiItems), includes)},
          featuredImageUrl \in {getFeaturedImageUrl(it, includes)}} : TRUE

\* the index of the first '>' of s, 0 when it has none
RECURSIVE IndexOfGt(_)
IndexOfGt(s) ==
  IF s = <<>> THEN 0
  ELSE IF Head(s) = ">" THEN 1
  ELSE IF IndexOfGt(Tail(s)) = 0 THEN 0 ELSE 1 + IndexOfGt(Tail(s))

\* s.replace(/<[^>]+>/g, '')
RECURSIVE StripTags(_)
StripTags(s) ==
  IF s = <<>> THEN <<>>
  ELSE IF Head(s) = "<" /\ IndexOfGt(Tail(s)) > 1
       THEN StripTags(SubSeq(s, IndexOfGt(Tail(s)) + 2, Len(s)))
       ELSE <<Head(s)>> \o StripTags(Tail(s))

\* the length of the description taken from the challenge
DescriptionLength == 160

\* the character U+2026 the code appends
Ellipsis == <<"U+2026">>

\* s.slice(0, n)
Slice(s, n) == SubSeq(s, 1, IF Len(s) < n THEN Len(s) ELSE n)

\* the strategy section of a case study (458-465)
StrategyHtml(strategy, includes, items) ==
  IF ~Truthy(strategy) THEN Str(<<>>)
  ELSE IF IsObjectType(strategy) /\ Truthy(Get(strategy, "content"))
       THEN richTextToHtml(strategy, includes, items)
       ELSE Str(escapeHtml(Str(StringOf(strategy))))

\* the page of one iteration of the second loop of generateCaseStudies, from its
\* constants (467-504)
CaseStudyPage(slug, clientName, challenge, strategyHtml, resultsHtml, seo) ==
  IF ~Truthy(slug) THEN NoPage
  ELSE IF resultsHtml = Thrown \/ seo = Thrown THEN Thrown
  ELSE
    LET seoTitle == Or(Get(seo, "pageTitle"), clientName)
        seoDescription ==
          IF Truthy(Get(seo, "pageDescription")) THEN Get(seo, "pageDescription")
          ELSE IF ~Truthy(challenge) THEN Str(<<>>)
          ELSE IF ~IsString(challenge) THEN Thrown          \* challenge.replace
          ELSE Str(Slice(StripTags(challenge.chars), DescriptionLength) \o Ellipsis)
        canonical == Or(Get(seo, "canonicalUrl"),
                        Str(BASE \o <<"/resources/case-studies/">>
                              \o encodeURIComponent(slug) \o <<"/">>))
    IN IF ~IsString(seoDescription) THEN Thrown            \* also description.slice
       ELSE IF ~IsString(slug) THEN Thrown                 \* path.join (503)
       ELSE
         [kind |-> "page",
          slug |-> slug.chars,
          title |-> StringOf(seoTitle) \o Suffix,
          description |-> seoDescription.chars,
          canonical |-> StringOf(canonical),
          ogType |-> <<"website">>,
          ogImage |-> FirstShareImage(seo).chars,
          noindex |-> Truthy(Get(seo, "noindex")),
          nofollow |-> Truthy(Get(seo, "nofollow")),
          jsonLd |-> JsonLdTags(Undefined),                 \* csHeadOpts has no schemaJson
          main |->
            <<"<h1 style=\"margin-bottom:1rem;\">">> \o escapeHtml(clientName) \o <<"</h1>">>
            \o <<"<section><h2>The Challenge</h2><div class=\"legal-page\"><p>">>
            \o escapeHtml(challenge) \o <<"</p></div></section>">>
            \o <<"<section><h2>The Strategy</h2><div class=\"legal-page\">">>
            \o strategyHtml.chars \o <<"</div></section>">>
            \o <<"<section><h2>The Results</h2><div class=\"legal-page\">">>
            \o resultsHtml.chars \o <<"</div></section>">>]

\* one iteration of the second loop of generateCaseStudies (448-505); each constant of
\* the iteration is evaluated once
CaseStudy(it, includes, items) ==
  LET f == FieldsOf(it)
  IN CHOOSE page \in
       {CaseStudyPage(slug, clientName, challenge, strategyHtml, resultsHtml, seo) :
          slug \in {Or(unwrap(Get(f, "slug")), Get(Get(it, "sys"), "id"))},
          clientName \in {Or(unwrap(Get(f, "clientName")), Str(<<"Case Study">>))},
          challenge \in {Or(unwrap(Get(f, "challenge")), Str(<<>>))},
          strategyHtml \in {StrategyHtml(unwrap(Get(f, "strategy")), includes, items)},
          resultsHtml \in {buildResultsFromResultBlocks(
                             Or(unwrap(Get(f, "resultsBlocks")), Arr(<<>>)), includes, items)},
          seo \in {getSeo(resolveSeoRef(it, includes, items), includes)}} : TRUE

(***************************************************************************)
(* The entries and the includes the generator is run on.                   *)
(***************************************************************************)
AuthorType == <<"c", "o", "m", "p", "o", "n", "e", "n", "t", "A", "u", "t", "h", "o", "r">>
ResultType == <<"r", "e", "s", "u", "l", "t", "B", "l", "o", "c", "k">>
BlogType == <<"p", "a", "g", "e", "B", "l", "o", "g", "P", "o", "s", "t">>
CaseStudyType == <<"c", "a", "s", "e", "S", "t", "u", "d", "y", "P", "a", "g", "e">>

EntryStub(id) == LinkStub("Entry", id)
AssetStub(id) == LinkStub("Asset", id)

\* includes.Asset: the assets of PoolAssets and one whose URL is a number
PageAssets ==
  PoolAssets \o <<Asset(<<"a", "4">>, <<Prop("file", Localized(Obj(<<Prop("url", Num(1))>>)))>>)>>

\* a Rich Content Block with the rich text 'Hi'
HelloBlock ==
  BlockEntry(<<"b", "2">>, RichContentBlockDefault, Document(<<Paragraph(Hi)>>),
             Undefined, Undefined, Undefined, Undefined)

\* a post whose only content is a reference to that block in the field contentBlocks
HelloPost ==
  Entry(<<"p", "2">>, BlogType,
        Field("slug", Str(<<"h", "e", "l", "l", "o">>))
          \o Field("title", Str(<<"H", "e", "l", "l", "o">>))
          \o Field("contentBlocks", Arr(<<EntryStub(<<"b", "2">>)>>)))

\* includes.Entry: two authors, two SEO components, two result blocks, a CTA and two content
\* blocks; the avatar of u2, a share image of k1 and of k2, the graph of r1 and the image
\* of b1 are in no pool
PageEntries ==
  <<Entry(<<"u", "1">>, AuthorType,
          Field("name", Str(<<"A", "l">>)) \o Field("avatar", AssetStub(<<"a", "1">>))
            \o Field("bio", Str(Special))),
    Entry(<<"u", "2">>, AuthorType,
          Field("name", Str(<<"B", "o">>)) \o Field("avatar", AssetStub(<<"a", "9">>))),
    Entry(<<"k", "1">>, SeoComponent,
          Field("pageTitle", Str(<<"S">>))
            \o Field("shareImages", Arr(<<AssetStub(<<"a", "9">>), AssetStub(<<"a", "2">>)>>))),
    Entry(<<"k", "2">>, SeoComponent,
          Field("pageDescription", Str(<<"D">>)) \o Field("noindex", Bool(TRUE))
            \o Field("shareImages", Arr(<<AssetStub(<<"a", "9">>)>>))),
    Entry(<<"r", "1">>, ResultType,
          Field("metricValue", Str(<<"9">>)) \o Field("metricLabel", Str(<<"x">>))
            \o Field("graphImage", AssetStub(<<"a", "9">>))),
    Entry(<<"r", "2">>, ResultType,
          Field("description", Str(Special)) \o Field("graphImage", AssetStub(<<"a", "1">>))),
    CtaEntry(<<"c", "1">>, CtaBlockDefault, Str(<<"T">>), Undefined, Str(<<"G", "o">>),
             Str(<<"/", "x">>)),
    BlockEntry(<<"b", "1">>, RichContentBlockDefault,
               Document(<<Paragraph(Hi), EmbedBlock(EntryStub(<<"z", "9">>))>>),
               AssetStub(<<"a", "9">>), Str(<<"c">>), Undefined, Undefined),
    HelloBlock>>

PageIncludes == Includes(PageEntries, PageAssets)

PageDocs ==
  {Undefined, Document(<<Paragraph(Hi)>>),
   Document(<<Paragraph(Hi), EmbedBlock(EntryStub(<<"z", "9">>))>>),
   Document(<<EmbedAsset(AssetStub(<<"a", "9">>)), EmbedBlock(EntryStub(<<"c", "1">>))>>),
   Document(<<EmbedBlock(EntryStub(<<"z", "9">>))>>),
   Document(<<EmbedBlock(EntryStub(<<"b", "1">>))>>)}

SeoRefs == {Undefined} \cup {EntryStub(id) : id \in {<<"k", "1">>, <<"k", "2">>, <<"z", "9">>}}

BlogEntries ==
  {Entry(<<"p", "1">>, BlogType,
         Field("title", Str(<<"T">>)) \o Field("slug", Str(<<"a", " ", "b">>))
           \o Field("content", content) \o Field("seoFields", seo) \o Field("author", author)
           \o Field("featuredImage", image) \o Field("faqs", faqs)) :
     content \in PageDocs,
     seo \in SeoRefs,
     author \in {Undefined}
                  \cup {EntryStub(id) : id \in {<<"u", "1">>, <<"u", "2">>, <<"z", "9">>}},
     image \in {Undefined}
                 \cup {AssetStub(id) : id \in {<<"a", "1">>, <<"a", "4">>, <<"a", "9">>}},
     faqs \in {Undefined,
               Document(<<Node("heading-2", Obj(<<>>), <<TextNode(<<"Q">>)>>),
                          Node("paragraph", Obj(<<>>),
                               <<TextNode(<<"A">>), EmbedInline(EntryStub(<<"z", "9">>))>>)>>),
               Document(<<Paragraph(<<"A">>)>>)}}            \* FAQ text under no heading
    \cup {HelloPost}

CaseStudyEntries ==
  {Entry(<<"s", "1">>, CaseStudyType,
         Field("clientName", Str(<<"C">>)) \o Field("challenge", challenge)
           \o Field("strategy", strategy) \o Field("resultsBlocks", results)
           \o Field("seo", seo)) :
     challenge \in {Undefined, Str(<<"a", "<", "b", ">", "c">>)},
     strategy \in {Undefined, Str(Special),
                   Document(<<EmbedBlock(EntryStub(<<"z", "9">>)), Paragraph(Hi)>>)},
     results \in {Undefined, Arr(<<EntryStub(<<"r", "1">>)>>), Arr(<<EntryStub(<<"z", "9">>)>>),
                  Arr(<<EntryStub(<<"z", "9">>), EntryStub(<<"r", "2">>)>>),
                  Arr(<<EntryStub(<<"r", "1">>), EntryStub(<<"z", "9">>),
                        EntryStub(<<"r", "2">>)>>)},
     seo \in SeoRefs}
    \cup {Obj(<<Prop("fields", Obj(Field("clientName", Str(<<"C">>))))>>)}   \* no slug, no id

\* process.env naming the fields that hold the body of a post
EnvBody ==
  [EnvDefault EXCEPT !.CONTENTFUL_CONTENT_FIELD =
                       Str(<<"b", "o", "d", "y", ",", " ", "c", "o", "n", "t", "e", "n", "t">>)]

(***************************************************************************)
(* One detail page: the entry is the listing (data.items), and the pools   *)
(* of resolution are data.items and data.includes.                         *)
(***************************************************************************)
GenerateBlogPost ==
  /\ pPc = "ready" /\ pKind = "blog"
  /\ pOut' = BlogPost(pEntry, pIncludes, Arr(<<pEntry>>))
  /\ pPc' = "done"
  /\ UNCHANGED <<pKind, pEntry, pIncludes, notP>>

GenerateCaseStudy ==
  /\ pPc = "ready" /\ pKind = "caseStudy"
  /\ pOut' = CaseStudy(pEntry, pIncludes, Arr(<<pEntry>>))
  /\ pPc' = "done"
  /\ UNCHANGED <<pKind, pEntry, pIncludes, notP>>

InitPage ==
  /\ \/ pKind = "blog" /\ pEntry \in BlogEntries
     \/ pKind = "caseStudy" /\ pEntry \in CaseStudyEntries
  /\ pIncludes \in {PageIncludes, Obj(<<>>)}       \* data.includes || {}
  /\ pOut = Undefined
  /\ pPc = "ready"
  /\ env \in {EnvDefault, EnvBody}
  /\ UnwrapIdle /\ ResolveIdle /\ BlockIdle /\ DocIdle /\ FaqIdle /\ RunIdle
  /\ ServerIdle

NextPage == GenerateBlogPost \/ GenerateCaseStudy

SpecPage == InitPage /\ [][NextPage]_vars

(***************************************************************************)
(* Claims about references that resolve nowhere.                           *)
(***************************************************************************)
\* the ids of the entities of a pool
IdsOf(pool) ==
  IF Truthy(pool) /\ IsArray(pool)
  THEN {Get(Get(pool.elems[i], "sys"), "id") : i \in 1..Len(pool.elems)}
  ELSE {}

\* v is a link stub whose target is in neither pool of entries, or not among the assets
IsDangling(v, entryIds, assetIds) ==
  /\ IsLinkStub(v)
  /\ Get(Get(v, "sys"), "type") = Str(<<"Link">>)
  /\ \/ Get(Get(v, "sys"), "linkType") = Str(<<"Entry">>) /\ Get(Get(v, "sys"), "id") \notin entryIds
     \/ Get(Get(v, "sys"), "linkType") = Str(<<"Asset">>) /\ Get(Get(v, "sys"), "id") \notin assetIds

\* the same data without its dangling link stubs: a property holding one is dropped, and
\* so is an element of an array
RECURSIVE WithoutDangling(_, _, _)
RECURSIVE ElemsWithoutDangling(_, _, _)
RECURSIVE PropsWithoutDangling(_, _, _)
WithoutDangling(v, entryIds, assetIds) ==
  IF v.kind = "array" THEN Arr(ElemsWithoutDangling(v.elems, entryIds, assetIds))
  ELSE IF v.kind = "object"
       THEN [v EXCEPT !.props = PropsWithoutDangling(v.props, entryIds, assetIds)]
  ELSE v

ElemsWithoutDangling(es, entryIds, assetIds) ==
  IF es = <<>> THEN <<>>
  ELSE IF IsDangling(Head(es), entryIds, assetIds)
       THEN ElemsWithoutDangling(Tail(es), entryIds, assetIds)
       ELSE <<WithoutDangling(Head(es), entryIds, assetIds)>>
              \o ElemsWithoutDangling(Tail(es), entryIds, assetIds)

PropsWithoutDangling(ps, entryIds, assetIds) ==
  IF ps = <<>> THEN <<>>
  ELSE IF IsDangling(Head(ps).val, entryIds, assetIds)
       THEN PropsWithoutDangling(Tail(ps), entryIds, assetIds)
       ELSE <<Prop(Head(ps).key, WithoutDangling(Head(ps).val, entryIds, assetIds))>>
              \o PropsWithoutDangling(Tail(ps), entryIds, assetIds)

PageEntryIds == IdsOf(Arr(<<pEntry>>)) \cup IdsOf(Get(pIncludes, "Entry"))
PageAssetIds == IdsOf(Get(pIncludes, "Asset"))
Pruned(v) == WithoutDangling(v, PageEntryIds, PageAssetIds)

PageOf(kind, entry, includes) ==
  IF kind = "blog" THEN BlogPost(entry, includes, Arr(<<entry>>))
  ELSE CaseStudy(entry, includes, Arr(<<entry>>))

\* C7: a link stub that resolves in neither pool is recovered at every call site
\* (embedded entry, SEO reference, author reference, result block, image or asset
\* reference): the page is the one the same data yields without its dangling stubs, so
\* the stub raises no error and leaves nothing in the output.
C7_DanglingRecovered ==
  pPc = "done" =>
    /\ pOut = PageOf(pKind, Pruned(pEntry), Pruned(pIncludes))
    /\ (PageOf(pKind, Pruned(pEntry), Pruned(pIncludes)) # Thrown => pOut # Thrown)

\* a post whose SEO reference, author, featured image and embedded entry all dangle
C7_Witness ==
  /\ pPc = "done" /\ pKind = "blog" /\ pIncludes = PageIncludes
  /\ unwrap(Get(FieldsOf(pEntry), "seoFields")) = EntryStub(<<"z", "9">>)
  /\ unwrap(Get(FieldsOf(pEntry), "author")) = EntryStub(<<"z", "9">>)
  /\ unwrap(Get(FieldsOf(pEntry), "featuredImage")) = AssetStub(<<"a", "9">>)
  /\ unwrap(Get(FieldsOf(pEntry), "content")) = Document(<<EmbedBlock(EntryStub(<<"z", "9">>))>>)
  /\ Pruned(pEntry) # pEntry
  /\ pOut # Thrown /\ pOut.kind = "page"

(***************************************************************************)
(* The documents extractFaqPairs is checked on.                            *)
(***************************************************************************)
\* the nodes of a FAQ document
Heading(level, s) == Node(level, Obj(<<>>), <<TextNode(s)>>)
ListOf(t, s) == Node(t, Obj(<<>>), <<Node("list-item", Obj(<<>>), <<Paragraph(s)>>)>>)
\* a paragraph of two text nodes, the second one inside a hyperlink
LinkedParagraph ==
  Node("paragraph", Obj(<<>>),
       <<TextNode(<<"B", " ">>), Node("hyperlink", Obj(<<>>), <<TextNode(<<"k">>)>>)>>)

FaqNodes ==
  {Heading("heading-2", <<"Q">>), Heading("heading-3", <<" ", "R">>),
   Heading("heading-6", <<" ">>), Heading("heading-4", <<>>),
   Heading("heading-1", <<"T">>),
   Paragraph(<<"A">>), LinkedParagraph, ListOf("unordered-list", <<"L">>),
   Node("hr", Obj(<<>>), <<>>), Node("blockquote", Obj(<<>>), <<Paragraph(<<"C">>)>>)}

\* [h2 Q, p A, p Bk, h3 R, list L]
FaqExample ==
  Document(<<Heading("heading-2", <<"Q">>), Paragraph(<<"A">>), LinkedParagraph,
             Heading("heading-5", <<"R">>), ListOf("ordered-list", <<"L">>)>>)

\* top-level nodes that are neither a level 2-6 heading nor a paragraph or list
OtherFaqNodes ==
  {Heading("heading-1", <<"T">>), Node("hr", Obj(<<>>), <<>>),
   Node("blockquote", Obj(<<>>), <<Paragraph(<<"C">>)>>),
   EmbedBlock(EntryStub(<<"c", "1">>)), EmbedAsset(AssetStub(<<"a", "1">>))}

\* [h2 Q, p A, other, list L]
FaqDivided == {Document(<<Heading("heading-2", <<"Q">>), Paragraph(<<"A">>), other,
                          ListOf("unordered-list", <<"L">>)>>) : other \in OtherFaqNodes}

FaqDocs ==
  {Document(c) : c \in SeqsUpTo(FaqNodes, MaxFaqNodes)}
    \cup {FaqExample, Undefined, Null, Obj(<<Prop("nodeType", Str(<<"document">>))>>)}
    \cup FaqDivided

ExtractFaq ==
  /\ fPc = "ready"
  /\ fPairs' = extractFaqPairs(fDoc)
  /\ fPc' = "extracted"
  /\ UNCHANGED <<fDoc, fSchema, notF>>

\* buildFaqSchema(extractFaqPairs(faqsRich)), generate-resources.js 294-295
BuildFaq ==
  /\ fPc = "extracted"
  /\ fSchema' = buildFaqSchema(fPairs)
  /\ fPc' = "built"
  /\ UNCHANGED <<fDoc, fPairs, notF>>

\* buildFaqSchema of an absent list
BuildFaqAbsent ==
  /\ fPc = "ready"
  /\ \E pairs \in {Undefined, Null} :
       /\ fPairs' = pairs
       /\ fSchema' = buildFaqSchema(pairs)
  /\ fPc' = "built"
  /\ UNCHANGED <<fDoc, notF>>

InitFaq ==
  /\ fDoc \in FaqDocs
  /\ fPairs = Undefined /\ fSchema = Undefined /\ fPc = "ready"
  /\ env = EnvDefault
  /\ UnwrapIdle /\ ResolveIdle /\ BlockIdle /\ DocIdle /\ PageIdle /\ RunIdle
  /\ ServerIdle

NextFaq == ExtractFaq \/ BuildFaq \/ BuildFaqAbsent
SpecFaq == InitFaq /\ [][NextFaq]_vars

\* the top-level nodes of the scanned document
FaqContent ==
  IF Truthy(fDoc) /\ IsArray(Get(fDoc, "content")) THEN Get(fDoc, "content").elems
  ELSE <<>>

IsQuestionNode(n) == Get(n, "nodeType") \in headingTypes
IsAnswerNode(n) ==
  Get(n, "nodeType") \in
    {Str(<<"paragraph">>), Str(<<"unordered-list">>), Str(<<"ordered-list">>)}

\* the numbers of a set in increasing order
RECURSIVE Ascending(_)
Ascending(S) ==
  IF S = {} THEN <<>>
  ELSE <<CHOOSE i \in S : \A j \in S : i <= j>>
         \o Ascending(S \ {CHOOSE i \in S : \A j \in S : i <= j})

\* the positions of the headings of level 2-6
HeadsOf(c) == {i \in 1..Len(c) : IsQuestionNode(c[i])}
\* the paragraphs and lists between the heading at h and the next heading
AnswersOf(c, h) ==
  {j \in (h + 1)..Len(c) :
     IsAnswerNode(c[j]) /\ \A k \in (h + 1)..j : ~IsQuestionNode(c[k])}
\* the headings with a question text and at least one answer part
OpenedHeads(c) == {h \in HeadsOf(c) : textFromNode(c[h]) # <<>> /\ AnswersOf(c, h) # {}}

TextsAt(c, idx) == [k \in 1..Len(idx) |-> textFromNode(c[idx[k]])]
Trimmed(s, trimmed) == IF trimmed THEN Trim(s) ELSE s
\* the pair of the heading at h
PairAt(c, h, trimmed) ==
  FaqPair(Trimmed(textFromNode(c[h]), trimmed),
          Trimmed(Join(TextsAt(c, Ascending(AnswersOf(c, h))), <<" ">>), trimmed))
\* the pairs of the document in document order
ExpectedPairs(c, trimmed) ==
  [k \in 1..Cardinality(OpenedHeads(c)) |-> PairAt(c, Ascending(OpenedHeads(c))[k], trimmed)]

FaqExtracted == fPc \in {"extracted", "built"} /\ IsArray(fPairs)

\* C11: extractFaqPairs scans the top-level nodes in document order; each heading of
\* level 2-6 opens a pair whose question is the heading's flattened text, each following
\* paragraph or list adds its flattened text to the answer, the answer is the parts
\* joined by a space, and the pairs come in document order.
C11_PairsInDocumentOrder ==
  FaqExtracted => fPairs.elems = ExpectedPairs(FaqContent, FALSE)

\* C11 (amended): the same, with the question and the answer trimmed of the whitespace
\* around them.
C11_PairsInDocumentOrderTrimmed ==
  FaqExtracted => fPairs.elems = ExpectedPairs(FaqContent, TRUE)

\* [h2 Q, p A, p "B k", h5 R, ol L] yields [{Q, "A B k"}, {R, "L"}]
C11_Witness ==
  /\ fPc = "extracted" /\ fDoc = FaqExample
  /\ fPairs = Arr(<<FaqPair(<<"Q">>, <<"A", " ", "B", " ", "k">>),
                    FaqPair(<<"R">>, <<"L">>)>>)

\* C12: every pair returned by extractFaqPairs has a non-empty question and was built
\* from at least one answer part; a heading followed directly by another heading or by
\* the end of the document yields no pair.
C12_NoEmptyQuestionNoOrphan ==
  FaqExtracted =>
    /\ \A i \in 1..Len(fPairs.elems) : Get(fPairs.elems[i], "question") # Str(<<>>)
    /\ Len(fPairs.elems) <=
         Cardinality({h \in HeadsOf(FaqContent) : AnswersOf(FaqContent, h) # {}})
    /\ (HeadsOf(FaqContent) # {} /\ \A h \in HeadsOf(FaqContent) :
          h = Len(FaqContent) \/ IsQuestionNode(FaqContent[h + 1]))
         => fPairs.elems = <<>>

\* C13: buildFaqSchema returns null for zero pairs (an empty or absent list); otherwise
\* a FAQPage whose mainEntity has one Question per pair, in the order of the pairs, with
\* the pair's question as name and the pair's answer as acceptedAnswer.text.
C13_OneQuestionPerPair ==
  fPc = "built" =>
    IF ~IsArray(fPairs) \/ fPairs.elems = <<>> THEN fSchema = Null
    ELSE /\ Get(fSchema, "@type") = Str(<<"FAQPage">>)
         /\ IsArray(Get(fSchema, "mainEntity"))
         /\ Len(Get(fSchema, "mainEntity").elems) = Len(fPairs.elems)
         /\ \A i \in 1..Len(fPairs.elems) :
              /\ Get(Get(fSchema, "mainEntity").elems[i], "@type") = Str(<<"Question">>)
              /\ Get(Get(fSchema, "mainEntity").elems[i], "name")
                   = Get(fPairs.elems[i], "question")
              /\ Get(Get(Get(fSchema, "mainEntity").elems[i], "acceptedAnswer"), "text")
                   = Get(fPairs.elems[i], "answer")

\* two pairs become two questions
C13_Witness ==
  /\ fPc = "built" /\ IsArray(fPairs) /\ Len(fPairs.elems) = 2
  /\ Get(fPairs.elems[1], "question") # Get(fPairs.elems[2], "question")
  /\ Len(Get(fSchema, "mainEntity").elems) = 2

\* no pair, no schema
C13_WitnessNone == fPc = "built" /\ fPairs = Arr(<<>>) /\ fSchema = Null

\* sub occurs in s as a run of consecutive units
ContainsRun(s, sub) ==
  \E i \in 1..(Len(s) - Len(sub) + 1) : SubSeq(s, i, i + Len(sub) - 1) = sub

\* 'Hi' wrapped in a div of class 'content-block content-block--text'
HelloFragment ==
  <<"<div class=\"", "content-block content-block--", "t", "e", "x", "t", "\">",
    "<p>", "H", "i", "</p>", "</div>">>

\* C14: for a blog entry whose contentBlocks field links to a Rich Content Block (rich
\* text 'Hi') that is present in the includes, the rendered post body contains 'Hi'
\* wrapped in a div with class 'content-block content-block--text'.
C14_ContentBlocksRendered ==
  (pPc = "done" /\ pEntry = HelloPost /\ pIncludes = PageIncludes)
    => /\ pOut # Thrown
       /\ pOut.kind = "page"
       /\ ContainsRun(pOut.main, HelloFragment)

(***************************************************************************)
(* A generation run: main, fetchContentful, writeFile, generateBlog,       *)
(* generateCaseStudies (generate-resources.js 159-174, 190-535)            *)
(***************************************************************************)
MaxRuns == 2        \* generation runs in a row

\* a file of the output tree and the writes of the run so far
Disk(files, written, threw) == [files |-> files, written |-> written, threw |-> threw]

\* a plausible bug: a file that exists is left as it is
writeFile_KeepExisting(d, filePath, content) ==
  Disk([q \in DOMAIN d.files \cup {filePath} |->
          IF q \in DOMAIN d.files THEN d.files[q] ELSE content],
       Append(d.written, filePath), d.threw)

\* writeFile(filePath, content): the directories are made, the file is replaced
writeFile(d, filePath, content) ==
  Disk([q \in DOMAIN d.files \cup {filePath} |->
          IF q = filePath THEN content ELSE d.files[q]],
       Append(d.written, filePath), d.threw)

\* path.join(ROOT, 'resources', dir, 'index.html') and
\* path.join(ROOT, 'resources', dir, slug, 'index.html'), relative to ROOT
IndexPath(dir) == <<"resources", dir, "index.html">>
PagePath(dir, slug) == <<"resources", dir, slug, "index.html">>

\* one article of the blog listing (195-207)
BlogCard(slug, title, subtitle) ==
  <<"<article><h2><a href=\"">> \o <<"/resources/blog/">> \o encodeURIComponent(slug)
    \o <<"/">> \o <<"\">">> \o escapeHtml(title) \o <<"</a></h2><p>">>
    \o escapeHtml(subtitle) \o <<"</p></article>">>

RECURSIVE BlogCards(_)
BlogCards(listing) ==
  IF listing = <<>> THEN <<>>
  ELSE <<BlogCard(Or(unwrap(Get(FieldsOf(Head(listing)), "slug")),
                     Or(Get(Get(Head(listing), "sys"), "id"), Str(<<"post">>))),
                  Or(unwrap(Get(FieldsOf(Head(listing)), "title")), Str(<<"Untitled">>)),
                  Or(unwrap(Get(FieldsOf(Head(listing)), "subtitle")), Str(<<>>)))>>
         \o BlogCards(Tail(listing))

\* the blog index (194-236)
BlogIndex(listing) ==
  [kind |-> "index",
   list |-> IF listing = <<>> THEN <<"<p>No posts yet.</p>">>
            ELSE Join(BlogCards(listing), <<"\n">>)]

\* the pages of the posts, in the order of the listing, up to the first that throws
RECURSIVE WriteBlogPosts(_, _, _, _)
WriteBlogPost(page, rest, includes, apiItems, d) ==
  IF page = Thrown THEN Disk(d.files, d.written, TRUE)
  ELSE WriteBlogPosts(rest, includes, apiItems,
                      writeFile(d, PagePath("blog", page.slug), page))

WriteBlogPosts(listing, includes, apiItems, d) ==
  IF listing = <<>> THEN d
  ELSE WriteBlogPost(BlogPost(Head(listing), includes, apiItems), Tail(listing),
                     includes, apiItems, d)

\* data.items || [], data.includes || {}
ListingOf(data) == Or(Get(data, "items"), Arr(<<>>))
IncludesOf(data) == Or(Get(data, "includes"), Obj(<<>>))

generateBlog(data, d) ==
  WriteBlogPosts(ListingOf(data).elems, IncludesOf(data), ListingOf(data),
                 writeFile(d, IndexPath("blog"), BlogIndex(ListingOf(data).elems)))

\* [v, l].filter(Boolean).join(' ')
MetricOf(v, l) ==
  IF Truthy(v) /\ Truthy(l) THEN Str(StringOf(v) \o <<" ">> \o StringOf(l))
  ELSE IF Truthy(v) THEN Str(StringOf(v))
  ELSE IF Truthy(l) THEN Str(StringOf(l))
  ELSE Str(<<>>)

\* the metric of a card from the first result block (400-408)
FirstResultMetric(rb) ==
  IF Truthy(rb) /\ Truthy(Get(rb, "fields"))
  THEN MetricOf(unwrap(Get(Get(rb, "fields"), "metricValue")),
                unwrap(Get(Get(rb, "fields"), "metricLabel")))
  ELSE Str(<<>>)

CardMetric(keyMetrics, firstResult, includes, items) ==
  IF Truthy(keyMetrics) THEN keyMetrics
  ELSE IF Truthy(firstResult) /\ Truthy(Get(firstResult, "sys"))
          /\ Truthy(Get(Get(firstResult, "sys"), "id"))
       THEN FirstResultMetric(resolveEntry(Get(Get(firstResult, "sys"), "id"), includes, items))
  ELSE Str(<<>>)

\* resultsBlocks[0]
FirstOf(list) == IF IsArray(list) /\ list.elems # <<>> THEN list.elems[1] ELSE Undefined

\* one card of the case-study listing (409-416)
CaseStudyCard(slug, clientName, industry, metric) ==
  <<"<div class=\"case-study-card\"><a href=\"">> \o <<"/resources/case-studies/">>
    \o encodeURIComponent(slug) \o <<"/">> \o <<"\">">> \o <<"<h2>">>
    \o escapeHtml(clientName) \o <<"</h2><p class=\"case-study-meta\">">>
    \o (IF Truthy(industry) THEN escapeHtml(industry) \o <<" U+00B7 ">> ELSE <<>>)
    \o <<"Case study</p><p class=\"case-study-metric\">">> \o escapeHtml(metric)
    \o <<"</p></a></div>">>

\* the static card of the Aspora case study (378-390)
AsporaCard == <<"<div class=\"case-study-card\">aspora-ai-visibility</div>">>

RECURSIVE CaseStudyCards(_, _, _)
CaseStudyCards(listing, includes, items) ==
  IF listing = <<>> THEN <<>>
  ELSE IF ~Truthy(Or(unwrap(Get(FieldsOf(Head(listing)), "slug")),
                     Get(Get(Head(listing), "sys"), "id")))
       THEN CaseStudyCards(Tail(listing), includes, items)
  ELSE <<CaseStudyCard(
           Or(unwrap(Get(FieldsOf(Head(listing)), "slug")), Get(Get(Head(listing), "sys"), "id")),
           Or(unwrap(Get(FieldsOf(Head(listing)), "clientName")), Str(<<"Case Study">>)),
           Or(unwrap(Get(FieldsOf(Head(listing)), "industry")), Str(<<>>)),
           CardMetric(Or(unwrap(Get(FieldsOf(Head(listing)), "keyMetrics")), Str(<<>>)),
                      FirstOf(Or(unwrap(Get(FieldsOf(Head(listing)), "resultsBlocks")),
                                 Arr(<<>>))),
                      includes, items))>>
         \o CaseStudyCards(Tail(listing), includes, items)

\* the case-study index (376-446)
CaseStudyIndex(listing, includes, items) ==
  [kind |-> "index",
   list |-> Join(<<AsporaCard>> \o CaseStudyCards(listing, includes, items), <<"\n">>)]

\* the pages of the studies, in the order of the listing, up to the first that throws
RECURSIVE WriteCaseStudies(_, _, _, _)
WriteCaseStudy(page, rest, includes, items, d) ==
  IF page = Thrown THEN Disk(d.files, d.written, TRUE)
  ELSE IF page = NoPage THEN WriteCaseStudies(rest, includes, items, d)
  ELSE WriteCaseStudies(rest, includes, items,
                        writeFile(d, PagePath("case-studies", page.slug), page))

WriteCaseStudies(listing, includes, items, d) ==
  IF listing = <<>> THEN d
  ELSE WriteCaseStudy(CaseStudy(Head(listing), includes, items), Tail(listing),
                      includes, items, d)

\* a plausible bug: no index is written when there is no study
generateCaseStudies_NoIndexWhenEmpty(data, d) ==
  IF ListingOf(data).elems = <<>> THEN d
  ELSE WriteCaseStudies(ListingOf(data).elems, IncludesOf(data), ListingOf(data),
                        writeFile(d, IndexPath("case-studies"),
                                  CaseStudyIndex(ListingOf(data).elems, IncludesOf(data),
                                                 ListingOf(data))))

generateCaseStudies(data, d) ==
  WriteCaseStudies(ListingOf(data).elems, IncludesOf(data), ListingOf(data),
                   writeFile(d, IndexPath("case-studies"),
                             CaseStudyIndex(ListingOf(data).elems, IncludesOf(data),
                                            ListingOf(data))))

\* the entries of the CMS over the runs: a post and its edited version, a second post, a
\* post whose featured image has a number as its URL (its page throws), and a post of
\* another id with the slug of the first
RunPost(id, slug, title, image) ==
  Entry(id, BlogType, Field("slug", Str(slug)) \o Field("title", Str(title))
                        \o Field("featuredImage", image))
PostA1 == RunPost(<<"p", "1">>, <<"a">>, <<"T">>, Undefined)
PostA2 == RunPost(<<"p", "1">>, <<"a">>, <<"U">>, Undefined)
PostB == RunPost(<<"p", "2">>, <<"b">>, <<"T">>, AssetStub(<<"a", "1">>))
PostX == RunPost(<<"p", "3">>, <<"x">>, <<"T">>, AssetStub(<<"a", "4">>))
PostD == RunPost(<<"p", "4">>, <<"a">>, <<"D">>, Undefined)

RunStudy(id, slug, clientName, results) ==
  Entry(id, CaseStudyType, Field("slug", Str(slug)) \o Field("clientName", Str(clientName))
                             \o Field("resultsBlocks", results))
StudyS1 == RunStudy(<<"s", "1">>, <<"s">>, <<"C">>, Arr(<<EntryStub(<<"r", "1">>)>>))
StudyS2 == RunStudy(<<"s", "1">>, <<"s">>, <<"K">>, Undefined)
\* a study without slug and without id
StudyN == Obj(<<Prop("fields", Obj(Field("clientName", Str(<<"C">>))))>>)

\* the body of a response of the content API
Data(items) == Obj(<<Prop("items", Arr(items)), Prop("includes", PageIncludes)>>)

BlogListings ==
  {<<>>, <<PostA1>>, <<PostA2, PostB>>, <<PostA1, PostX, PostB>>, <<PostA1, PostD>>}
CaseStudyListings == {<<>>, <<StudyS1>>, <<StudyS2, StudyN>>}

\* the content of the CMS at the start of a run
CmsStates ==
  {[blog |-> Data(b), cs |-> Data(c)] : b \in BlogListings, c \in CaseStudyListings}

\* CONTENTFUL_SPACE_ID and CONTENTFUL_ACCESS_TOKEN after loadDotenv()
Credentials ==
  {[space |-> Str(<<"s", "p">>), token |-> Str(<<"t", "k">>)],
   [space |-> Undefined, token |-> Str(<<"t", "k">>)],
   [space |-> Str(<<"s", "p">>), token |-> Str(<<>>)]}

\* env(name): process.env[name] || ''
EnvOr(v) == Or(v, Str(<<>>))

\* .catch(() => ({ items: [], includes: {} }))
EmptyResult == Obj(<<Prop("items", Arr(<<>>)), Prop("includes", Obj(<<>>))>>)

Fetch(state, data) == [state |-> state, data |-> data]

\* a plausible bug: only the space id is tested
Configured_SpaceOnly(creds) == Truthy(EnvOr(creds.space))

\* the negation of !space || !token (513)
Configured(creds) == Truthy(EnvOr(creds.space)) /\ Truthy(EnvOr(creds.token))

\* main up to the await of line 519: the process starts on the current content of the
\* CMS; without credentials it exits with 0, otherwise both fetches are issued
Main ==
  /\ gPc \in {"start", "exited"}
  /\ gRuns < MaxRuns
  /\ gRuns' = gRuns + 1
  /\ \E cms \in CmsStates, creds \in Credentials :
       /\ gCms' = cms
       /\ gCreds' = creds
       /\ IF ~Configured(creds)
          THEN /\ gPc' = "exited" /\ gExit' = 0
               /\ gFetches' = 0
               /\ gBlogRes' = NoFetch /\ gCsRes' = NoFetch
          ELSE /\ gPc' = "fetching" /\ gExit' = 0
               /\ gFetches' = 2
               /\ gBlogRes' = Fetch("pending", Undefined)
               /\ gCsRes' = Fetch("pending", Undefined)
  /\ gWritten' = <<>>
  /\ UNCHANGED <<gFiles, notG>>

\* fetchContentful of the blog query settles: the body of the response, or a throw on a
\* network error or on !res.ok
SettleBlog ==
  /\ gPc = "fetching" /\ gBlogRes.state = "pending"
  /\ \/ gBlogRes' = Fetch("ok", gCms.blog)
     \/ gBlogRes' = Fetch("failed", Undefined)
  /\ UNCHANGED <<gCms, gCreds, gCsRes, gFiles, gWritten, gFetches, gExit, gRuns, gPc, notG>>

\* fetchContentful of the case-study query settles; its rejection is caught (521)
SettleCaseStudies ==
  /\ gPc = "fetching" /\ gCsRes.state = "pending"
  /\ \/ gCsRes' = Fetch("ok", gCms.cs)
     \/ gCsRes' = Fetch("recovered", EmptyResult)
  /\ UNCHANGED <<gCms, gCreds, gBlogRes, gFiles, gWritten, gFetches, gExit, gRuns, gPc, notG>>

\* a plausible bug: the failure of the blog query skips the blog only
Abort_ContinueWithCaseStudies ==
  /\ gPc = "fetching" /\ gBlogRes.state = "failed" /\ gCsRes.state \in {"ok", "recovered"}
  /\ gPc' = "blogDone"
  /\ UNCHANGED <<gCms, gCreds, gBlogRes, gCsRes, gFiles, gWritten, gFetches, gExit, gRuns, notG>>

\* Promise.all rejects with the blog query: catch, process.exit(1) (530-533)
Abort ==
  /\ gPc = "fetching" /\ gBlogRes.state = "failed"
  /\ gPc' = "exited" /\ gExit' = 1
  /\ UNCHANGED <<gCms, gCreds, gBlogRes, gCsRes, gFiles, gWritten, gFetches, gRuns, notG>>

\* a plausible bug: the blog is generated as soon as its own query has answered
GenerateBlog_BlogAwaitedAlone ==
  /\ gPc = "fetching" /\ gBlogRes.state = "ok"
  /\ \E d \in {generateBlog(gBlogRes.data, Disk(gFiles, gWritten, FALSE))} :
       /\ gFiles' = d.files
       /\ gWritten' = d.written
       /\ IF d.threw THEN gPc' = "exited" /\ gExit' = 1
          ELSE gPc' = "blogDone" /\ gExit' = gExit
  /\ UNCHANGED <<gCms, gCreds, gBlogRes, gCsRes, gFetches, gRuns, notG>>

\* Promise.all resolves: await generateBlog(blogRes) (523); a throw is caught (530-533)
GenerateBlog ==
  /\ gPc = "fetching" /\ gBlogRes.state = "ok" /\ gCsRes.state \in {"ok", "recovered"}
  /\ \E d \in {generateBlog(gBlogRes.data, Disk(gFiles, gWritten, FALSE))} :
       /\ gFiles' = d.files
       /\ gWritten' = d.written
       /\ IF d.threw THEN gPc' = "exited" /\ gExit' = 1
          ELSE gPc' = "blogDone" /\ gExit' = gExit
  /\ UNCHANGED <<gCms, gCreds, gBlogRes, gCsRes, gFetches, gRuns, notG>>

\* await generateCaseStudies(csRes) and the end of main (524-529)
GenerateCaseStudies ==
  /\ gPc = "blogDone"
  /\ \E d \in {generateCaseStudies(gCsRes.data, Disk(gFiles, gWritten, FALSE))} :
       /\ gFiles' = d.files
       /\ gWritten' = d.written
       /\ gPc' = "exited"
       /\ gExit' = IF d.threw THEN 1 ELSE 0
  /\ UNCHANGED <<gCms, gCreds, gBlogRes, gCsRes, gFetches, gRuns, notG>>

InitRun ==
  /\ gCms \in CmsStates /\ gCreds \in Credentials
  /\ gBlogRes = NoFetch /\ gCsRes = NoFetch
  /\ gFiles = <<>> /\ gWritten = <<>> /\ gFetches = 0 /\ gExit = 0 /\ gRuns = 0
  /\ gPc = "start"
  /\ env = EnvDefault
  /\ UnwrapIdle /\ ResolveIdle /\ BlockIdle /\ DocIdle /\ PageIdle /\ FaqIdle
  /\ ServerIdle

NextRun ==
  Main \/ SettleBlog \/ SettleCaseStudies \/ Abort \/ GenerateBlog \/ GenerateCaseStudies

SpecRun == InitRun /\ [][NextRun]_vars

\* a credential of the run is absent
CredentialAbsent ==
  gCreds.space \in {Undefined, Str(<<>>)} \/ gCreds.token \in {Undefined, Str(<<>>)}

\* C15: when either access credential (space id or access token) is absent, the run
\* skips: it issues no fetch, writes no file, and exits with code 0.
C15_SkipWithoutCredentials ==
  (gPc # "start" /\ CredentialAbsent)
    => /\ gPc = "exited" /\ gExit = 0
       /\ gFetches = 0 /\ gBlogRes = NoFetch /\ gCsRes = NoFetch
       /\ gWritten = <<>>

\* a second run without the token leaves the output of the first run as it is
C15_Witness ==
  /\ gRuns = 2 /\ gPc = "exited" /\ gExit = 0
  /\ gCreds.space # Undefined /\ gCreds.token = Str(<<>>)
  /\ gFetches = 0 /\ gWritten = <<>> /\ DOMAIN gFiles # {}

\* C16: if the blog query fails, the whole run aborts: no file is written, whatever the
\* outcome of the case-study query, and the process exits non-zero.
C16_BlogFailureAborts ==
  (gPc # "start" /\ gBlogRes.state = "failed")
    => /\ gWritten = <<>>
       /\ gPc \in {"fetching", "exited"}
       /\ (gPc = "exited" => gExit = 1)

\* the blog query failed and the case-study query succeeded: exit 1, nothing written
C16_Witness ==
  /\ gPc = "exited" /\ gExit = 1 /\ gBlogRes.state = "failed" /\ gCsRes.state = "ok"
  /\ ListingOf(gCsRes.data).elems # <<>> /\ gWritten = <<>>

\* the page of the i-th post of a response, and the path it is written to
BlogPageOf(data, i) == BlogPost(ListingOf(data).elems[i], IncludesOf(data), ListingOf(data))
CaseStudyOf(data, i) == CaseStudy(ListingOf(data).elems[i], IncludesOf(data), ListingOf(data))
IsPage(page) == page # Thrown /\ page # NoPage
\* the posts of the response whose pages are rendered
RenderedBlog(data) == {i \in 1..Len(ListingOf(data).elems) : IsPage(BlogPageOf(data, i))}
RenderedCaseStudies(data) ==
  {i \in 1..Len(ListingOf(data).elems) : IsPage(CaseStudyOf(data, i))}
\* no post of the response throws
BlogRenders(data) == \A i \in 1..Len(ListingOf(data).elems) : BlogPageOf(data, i) # Thrown
CaseStudiesRender(data) ==
  \A i \in 1..Len(ListingOf(data).elems) : CaseStudyOf(data, i) # Thrown

\* the file at the path of the i-th post holds the page of the last post of the response
\* that has this path
BlogOutputCurrent(data) ==
  \A i \in RenderedBlog(data) :
    /\ PagePath("blog", BlogPageOf(data, i).slug) \in DOMAIN gFiles
    /\ gFiles[PagePath("blog", BlogPageOf(data, i).slug)]
         = BlogPageOf(data, CHOOSE j \in RenderedBlog(data) :
                              /\ BlogPageOf(data, j).slug = BlogPageOf(data, i).slug
                              /\ \A k \in RenderedBlog(data) :
                                   BlogPageOf(data, k).slug = BlogPageOf(data, i).slug => k <= j)
CaseStudyOutputCurrent(data) ==
  \A i \in RenderedCaseStudies(data) :
    /\ PagePath("case-studies", CaseStudyOf(data, i).slug) \in DOMAIN gFiles
    /\ gFiles[PagePath("case-studies", CaseStudyOf(data, i).slug)]
         = CaseStudyOf(data, CHOOSE j \in RenderedCaseStudies(data) :
                               /\ CaseStudyOf(data, j).slug = CaseStudyOf(data, i).slug
                               /\ \A k \in RenderedCaseStudies(data) :
                                    CaseStudyOf(data, k).slug = CaseStudyOf(data, i).slug
                                      => k <= j)

\* the paths of the pages of the posts of the response, in the order of the listing
BlogPagePaths(data) ==
  [i \in 1..Len(ListingOf(data).elems) |-> PagePath("blog", BlogPageOf(data, i).slug)]

NewlyWritten == {gWritten'[i] : i \in (Len(gWritten) + 1)..Len(gWritten')}

\* the paths a run writes: both indexes and the pages of the entries it received
PathsOfRun ==
  {IndexPath("blog"), IndexPath("case-studies")}
    \cup {PagePath("blog", BlogPageOf(gBlogRes.data, i).slug) : i \in RenderedBlog(gBlogRes.data)}
    \cup {PagePath("case-studies", CaseStudyOf(gCsRes.data, i).slug) :
            i \in RenderedCaseStudies(gCsRes.data)}

\* no step deletes a file, and a step changes only the files of the entries of its run
NoDeletion ==
  /\ \A q \in DOMAIN gFiles :
       q \in DOMAIN gFiles' /\ (q \notin NewlyWritten => gFiles'[q] = gFiles[q])
  /\ NewlyWritten # {} => NewlyWritten \subseteq PathsOfRun

Origin(scheme, host, port) ==
  Str(<<scheme, host>> \o (IF port = "" THEN <<>> ELSE <<":", port>>))

ALLOW_ORIGINS ==
  {Origin("https://", "theseopilot.pro", ""), Origin("https://", "www.theseopilot.pro", ""),
   Origin("http://", "localhost", "8000"), Origin("http://", "localhost", "5500"),
   Origin("http://", "127.0.0.1", "8000"), Origin("http://", "127.0.0.1", "5500")}

\* o.startsWith(prefix)
StartsWith(s, prefix) == Len(s) >= Len(prefix) /\ SubSeq(s, 1, Len(prefix)) = prefix

\* a plausible bug: only the listed origins are allowed
AllowsOrigin_ListOnly(o) == ~Truthy(o) \/ o \in ALLOW_ORIGINS

\* the origin callback of cors (42-46): cb(null, true) or cb(null, false)
AllowsOrigin(o) ==
  \/ ~Truthy(o) \/ o \in ALLOW_ORIGINS
  \/ StartsWith(o.chars, <<"http://", "localhost", ":">>)
  \/ StartsWith(o.chars, <<"http://", "127.0.0.1", ":">>)

\* res.status(status).json({ ok, ... }); post is the post of { ok: true, post }
Response(status, ok, post) == [status |-> status, ok |-> ok, post |-> post]

\* the post of a preview from its constants (162-175); Thrown when one of them is
\* (the formatted date is left out: it depends on the time zone of the process)
PreviewPostOf(entry, title, subtitle, body, faqsHtml, seo, author, featuredImageUrl) ==
  IF seo = Thrown \/ author = Thrown \/ featuredImageUrl = Thrown THEN Thrown
  ELSE
    [kind |-> "post",
     id |-> Get(Get(entry, "sys"), "id"),
     title |-> title,
     slug |-> Or(unwrap(Get(Get(entry, "fields"), "slug")), Get(Get(entry, "sys"), "id")),
     excerpt |-> subtitle,
     body |-> body,
     seoTitle |-> Or(Get(seo, "pageTitle"), title),
     seoDescription |-> Or(Get(seo, "pageDescription"), subtitle),
     publishDate |-> Or(unwrap(Get(Get(entry, "fields"), "publishedDate")), Str(<<>>)),
     featuredImageUrl |->
       IF ~Truthy(featuredImageUrl) THEN Str(<<>>)
       ELSE IF StartsWithSlashSlash(featuredImageUrl.chars)
            THEN Str(<<"h", "t", "t", "p", "s", ":">> \o featuredImageUrl.chars)
            ELSE featuredImageUrl,
     faqsHtml |-> faqsHtml,
     authorHtml |-> Str(AuthorHtml(author))]

\* the post of the entry (115-175); each constant is evaluated once
PreviewPost(entry, includes, items) ==
  CHOOSE post \in
    {PreviewPostOf(entry, title, subtitle, body, faqsHtml, seo, author, featuredImageUrl) :
       title \in {Or(unwrap(Get(Get(entry, "fields"), "title")), Str(<<"Untitled">>))},
       subtitle \in {Or(unwrap(Get(Get(entry, "fields"), "subtitle")), Str(<<>>))},
       body \in {BlogBody(Get(entry, "fields"), includes, items)},
       faqsHtml \in {FaqsHtml(Get(entry, "fields"), includes, items)},
       seo \in {getSeo(resolveSeoRef(entry, includes, items), Undefined)},
       author \in {getAuthor(resolveAuthorRef(entry, includes, items), includes)},
       featuredImageUrl \in {getFeaturedImageUrl(entry, includes)}} : TRUE

\* (req.query.x || '').trim(); Thrown when the value has no trim (a repeated parameter
\* is an array)
TrimmedParam(v) ==
  IF ~Truthy(v) THEN Str(<<>>)
  ELSE IF IsString(v) THEN Str(Trim(v.chars))
  ELSE Thrown

\* a plausible bug: every upstream status that is not ok is answered as 502
AnswerTo_BadGateway(up) ==
  IF up.kind \in {"networkError", "badJson", "statusNoBody"}
  THEN Response(500, FALSE, Undefined)
  ELSE IF up.kind = "status" THEN Response(502, FALSE, Undefined)
  ELSE IF ~Truthy(FirstOf(ListingOf(up.data)))
          \/ ~Truthy(Get(FirstOf(ListingOf(up.data)), "fields"))
       THEN Response(404, FALSE, Undefined)
  ELSE IF PreviewPost(FirstOf(ListingOf(up.data)), IncludesOf(up.data), ListingOf(up.data))
            = Thrown
       THEN Response(500, FALSE, Undefined)
  ELSE Response(200, TRUE,
                PreviewPost(FirstOf(ListingOf(up.data)), IncludesOf(up.data),
                            ListingOf(up.data)))

\* the answer to a settled upstream call (96-182)
AnswerTo(up) ==
  IF up.kind \in {"networkError", "badJson", "statusNoBody"}
  THEN Response(500, FALSE, Undefined)                       \* catch (182-188)
  ELSE IF up.kind = "status" THEN Response(up.status, FALSE, Undefined)   \* !r.ok
  ELSE IF ~Truthy(FirstOf(ListingOf(up.data)))
          \/ ~Truthy(Get(FirstOf(ListingOf(up.data)), "fields"))
       THEN Response(404, FALSE, Undefined)
  ELSE IF PreviewPost(FirstOf(ListingOf(up.data)), IncludesOf(up.data), ListingOf(up.data))
            = Thrown
       THEN Response(500, FALSE, Undefined)                  \* catch (182-188)
  ELSE Response(200, TRUE,
                PreviewPost(FirstOf(ListingOf(up.data)), IncludesOf(up.data),
                            ListingOf(up.data)))

\* the outcome of the fetch of the preview API: a network error, a body that is not
\* JSON, a status that is not ok (with its text, or with a body whose read fails: r.text()
\* of line 100 rejects), or the body of the response
Upstream(kind, status, data) == [kind |-> kind, status |-> status, data |-> data]

Upstreams ==
  {Upstream("networkError", 0, Undefined), Upstream("badJson", 200, Undefined),
   Upstream("status", 401, Undefined), Upstream("status", 404, Undefined),
   Upstream("status", 503, Undefined), Upstream("statusNoBody", 503, Undefined),
   Upstream("ok", 200, Obj(<<>>)),
   Upstream("ok", 200, Data(<<>>)),
   Upstream("ok", 200, Data(<<Obj(<<Prop("sys", Obj(<<Prop("id", Str(<<"p", "1">>))>>))>>)>>)),
   Upstream("ok", 200, Data(<<PostB>>)),
   Upstream("ok", 200, Data(<<PostX>>)),
   Upstream("ok", 200, Data(<<HelloPost>>))}

\* req.query.slug, req.query.id: absent, a string, or an array when the parameter is
\* repeated
QueryValues ==
  {Undefined, Str(<<>>), Str(<<" ">>), Str(<<"a">>), Arr(<<Str(<<"a">>), Str(<<"b">>)>>)}

Schemes == {"http://", "https://"}
Hosts == {"localhost", "127.0.0.1", "theseopilot.pro", "www.theseopilot.pro",
          "localhost.evil.example", "evil.example"}
Ports == {"", "8000", "5500", "3000"}
\* the Origin header of a request: absent, or an origin
Origins == {Undefined} \cup {Origin(s, h, p) : s \in Schemes, h \in Hosts, p \in Ports}

\* the cors middleware calls the origin callback with the Origin header
Cors ==
  /\ sPc = "received"
  /\ sAllow' = AllowsOrigin(sOrigin)
  /\ sPc' = "routed"
  /\ UNCHANGED <<sConf, sOrigin, sQuery, sFetches, sUp, sRes, notS>>

\* the handler throws before its try (65-66): the promise of the async handler rejects,
\* and the framework answers 500 through its error handler or, before its version 5,
\* never answers
PreviewThrows ==
  /\ sPc = "routed"
  /\ TrimmedParam(sQuery.slug) = Thrown \/ TrimmedParam(sQuery.id) = Thrown
  /\ \/ sRes' = Append(sRes, Response(500, FALSE, Undefined))
     \/ sRes' = sRes
  /\ sPc' = "done"
  /\ UNCHANGED <<sConf, sOrigin, sQuery, sAllow, sFetches, sUp, notS>>

\* the handler up to its fetch (64-98)
PreviewStart ==
  /\ sPc = "routed"
  /\ TrimmedParam(sQuery.slug) # Thrown /\ TrimmedParam(sQuery.id) # Thrown
  /\ IF ~Truthy(sConf.space) \/ ~Truthy(sConf.token)
     THEN /\ sRes' = Append(sRes, Response(500, FALSE, Undefined))
          /\ sPc' = "done" /\ sFetches' = sFetches
     ELSE IF ~Truthy(TrimmedParam(sQuery.slug)) /\ ~Truthy(TrimmedParam(sQuery.id))
     THEN /\ sRes' = Append(sRes, Response(400, FALSE, Undefined))
          /\ sPc' = "done" /\ sFetches' = sFetches
     ELSE /\ sRes' = sRes
          /\ sPc' = "awaiting" /\ sFetches' = sFetches + 1
  /\ UNCHANGED <<sConf, sOrigin, sQuery, sAllow, sUp, notS>>

\* the fetch settles and the handler answers (96-188)
PreviewSettle ==
  /\ sPc = "awaiting"
  /\ \E up \in Upstreams :
       /\ sUp' = up
       /\ sRes' = Append(sRes, AnswerTo(up))
  /\ sPc' = "done"
  /\ UNCHANGED <<sConf, sOrigin, sQuery, sAllow, sFetches, notS>>

InitServer ==
  /\ sConf \in Credentials
  /\ sOrigin \in Origins
  /\ sQuery \in [slug : QueryValues, id : QueryValues]
  /\ sAllow = FALSE /\ sFetches = 0 /\ sUp = Upstream("none", 0, Undefined)
  /\ sRes = <<>> /\ sPc = "received"
  /\ env = EnvDefault
  /\ UnwrapIdle /\ ResolveIdle /\ BlockIdle /\ DocIdle /\ PageIdle /\ FaqIdle /\ RunIdle

NextServer == Cors \/ PreviewThrows \/ PreviewStart \/ PreviewSettle
SpecServer == InitServer /\ [][NextServer]_vars

\* the parameter is given: it is not empty after trimming
ParamGiven(v) == Truthy(v) /\ (IsString(v) => Trim(v.chars) # <<>>)
\* the entry the upstream query returned, if any
UpstreamEntry == FirstOf(ListingOf(sUp.data))
UpstreamMatches ==
  sUp.kind = "ok" /\ Truthy(UpstreamEntry) /\ Truthy(Get(UpstreamEntry, "fields"))

\* C18: GET /api/preview answers 400 if neither slug nor id is given (after trimming),
\* 404 if the upstream query returns no matching entry, 500 if the service is
\* unconfigured or the upstream call throws, and 200 with {ok:true, post} otherwise;
\* exactly one of these responses is sent per request. (Where two of the conditions
\* hold, either answer is accepted; a throw while the post is built counts as a throw of
\* the upstream call.)
C18_PreviewStatus ==
  sPc = "done" =>
    /\ Len(sRes) = 1
    /\ \/ sRes[1].status = 400 /\ ~ParamGiven(sQuery.slug) /\ ~ParamGiven(sQuery.id)
       \/ sRes[1].status = 500
            /\ \/ ~Truthy(sConf.space) \/ ~Truthy(sConf.token)
               \/ sUp.kind \in {"networkError", "badJson"}
               \/ UpstreamMatches
                    /\ PreviewPost(UpstreamEntry, IncludesOf(sUp.data), ListingOf(sUp.data))
                         = Thrown
       \/ sRes[1].status = 404 /\ sUp.kind = "ok" /\ ~UpstreamMatches
       \/ /\ sRes[1].status = 200 /\ sRes[1].ok /\ sRes[1].post # Undefined
          /\ ParamGiven(sQuery.slug) \/ ParamGiven(sQuery.id)
          /\ Truthy(sConf.space) /\ Truthy(sConf.token)
          /\ UpstreamMatches

\* the origin is one of localhost or 127.0.0.1, whatever its scheme and port
IsLoopback(o) == o.chars[2] \in {"localhost", "127.0.0.1"}
\* the origin is http://localhost:<port> or http://127.0.0.1:<port>
IsHttpLoopbackWithPort(o) ==
  o.chars[1] = "http://" /\ o.chars[2] \in {"localhost", "127.0.0.1"} /\ Len(o.chars) = 4

\* C19: the preview service allows a cross-origin request if and only if its Origin is
\* one of the fixed allow-listed origins or is a localhost/loopback origin (localhost or
\* 127.0.0.1) at any port; every other origin is refused.
C19_OriginsAllowed ==
  (sPc # "received" /\ sOrigin # Undefined)
    => (sAllow <=> (sOrigin \in ALLOW_ORIGINS \/ IsLoopback(sOrigin)))

\* C19 (amended): ... or is an http localhost/loopback origin with an explicit port
\* (http://localhost:<port> or http://127.0.0.1:<port>); every other origin is refused.
C19_HttpLoopbackAllowed ==
  (sPc # "received" /\ sOrigin # Undefined)
    => (sAllow <=> (sOrigin \in ALLOW_ORIGINS \/ IsHttpLoopbackWithPort(sOrigin)))

\* http://localhost:3000 is not in the list and is allowed
C19_Witness ==
  /\ sPc = "routed" /\ sOrigin = Origin("http://", "localhost", "3000")
  /\ sOrigin \notin ALLOW_ORIGINS /\ sAllow

\* https://localhost:3000 is refused
C19_WitnessRefused ==
  /\ sPc = "routed" /\ sOrigin = Origin("https://", "localhost", "3000") /\ ~sAllow

(***************************************************************************)
(* Claims about the structured data of a page.                             *)
(***************************************************************************)
\* the page has a FAQ section: faqsRich of the loop 283-289 is set
HasFaqContent ==
  Truthy(FirstFaqsRich(FieldsOf(pEntry), FieldIds(env.CONTENTFUL_FAQS_FIELD, FaqsFieldDefault)))

\* the '@type' of the nodes of the '@graph' of a JSON-LD tag
GraphTypes(tag) ==
  LET graph == Get(tag.json, "@graph").elems
  IN [i \in 1..Len(graph) |-> Get(graph[i], "@type").chars]

PageWritten == pPc = "done" /\ pOut.kind = "page"

\* C21: each generated page carries one JSON-LD script tag whose @graph holds an Article
\* node, then a BreadcrumbList node, and after them a FAQPage node exactly when FAQ content
\* exists for the page.
C21_JsonLdGraph ==
  PageWritten
    => /\ Len(pOut.jsonLd) = 1
       /\ GraphTypes(pOut.jsonLd[1])
            = <<<<"Article">>, <<"BreadcrumbList">>>>
                \o (IF HasFaqContent THEN <<<<"FAQPage">>>> ELSE <<>>)

\* what the code does: a post carries the tag, with the FAQPage node exactly when the FAQ
\* document yields a pair; a case study carries no tag
C21_PostGraphCaseStudyNone ==
  PageWritten
    => IF pKind = "blog"
       THEN /\ Len(pOut.jsonLd) = 1
            /\ GraphTypes(pOut.jsonLd[1])
                 = <<<<"Article">>, <<"BreadcrumbList">>>>
                     \o (IF FaqSchemaOf(FieldsOf(pEntry)) # Null THEN <<<<"FAQPage">>>>
                         ELSE <<>>)
       ELSE pOut.jsonLd = <<>>

\* a case study page is written without a JSON-LD tag
C21_CaseStudyWithoutTag == PageWritten /\ pKind = "caseStudy" /\ pOut.jsonLd = <<>>

\* a post with FAQ text under no heading is written without a FAQPage node
C21_FaqSectionWithoutNode ==
  /\ PageWritten /\ pKind = "blog" /\ HasFaqContent
  /\ ContainsRun(pOut.main, <<"<section class=\"blog-faqs\" aria-labelledby=\"faqs-heading\">">>)
  /\ Len(GraphTypes(pOut.jsonLd[1])) = 2

(***************************************************************************)
(* Claims about the names of the rich text of a content block.             *)
(***************************************************************************)
\* the value of the first field of f, in the order of names, that is defined (truthy when
\* nonEmpty); undefined when there is none
RECURSIVE FirstAlias(_, _, _)
FirstAlias(f, names, nonEmpty) ==
  IF names = <<>> THEN Undefined
  ELSE IF (IF nonEmpty THEN Truthy(unwrap(Get(f, Head(names))))
           ELSE unwrap(Get(f, Head(names))) # Undefined)
       THEN unwrap(Get(f, Head(names)))
       ELSE FirstAlias(f, Tail(names), nonEmpty)

\* the block of style 'text' around the paragraph c
TextBlockOf(c) ==
  Str(<<"<div class=\"", "content-block content-block--", "t", "e", "x", "t", "\">",
        "<p>", c, "</p>", "</div>">>)

\* the output is the rendering of the payload: its block, nothing for no document
RendersPayload(out, payload) ==
  IF \E c \in {"c", "b", "r", "u"} : payload = AliasDoc(c)
  THEN \E c \in {"c", "b", "r", "u"} : payload = AliasDoc(c) /\ out = TextBlockOf(c)
  ELSE out = Str(<<>>)

AliasRendered == bPc = "done" /\ bEntry \in AliasEntries

\* C22: in the content-block branch the rich-text payload is read by trying the field
\* aliases content, body, richText, rich_text in that priority order and taking the first
\* that is defined: when an entity defines more than one of them, the earliest in that
\* order is the one rendered.
C22_AliasesContentFirst ==
  AliasRendered
    => RendersPayload(bOut, FirstAlias(Get(bEntry, "fields"),
                                       <<"content", "body", "richText", "rich_text">>, FALSE))

\* C22 (amended): the payload is read by trying richText, rich_text, body, content in that
\* priority order and taking the first whose value is non-empty (truthy): when an entity
\* holds more than one of them, the earliest in that order is the one rendered.
C22_AliasesRichTextFirst ==
  AliasRendered
    => RendersPayload(bOut, FirstAlias(Get(bEntry, "fields"),
                                       <<"richText", "rich_text", "body", "content">>, TRUE))

\* a block holding a document under content and another under richText has been rendered
\* to the one under richText
C22_Witness ==
  /\ AliasRendered
  /\ unwrap(Get(Get(bEntry, "fields"), "content")) = AliasDoc("c")
  /\ unwrap(Get(Get(bEntry, "fields"), "richText")) = AliasDoc("r")
  /\ bOut = TextBlockOf("r")

\* a block whose richText is the empty string has been rendered to its body
C22_WitnessEmptySkipped ==
  /\ AliasRendered
  /\ unwrap(Get(Get(bEntry, "fields"), "richText")) = Str(<<>>)
  /\ unwrap(Get(Get(bEntry, "fields"), "body")) = AliasDoc("b")
  /\ bOut = TextBlockOf("b")

(***************************************************************************)
(* Claims about a content block whose rich text embeds the block itself.   *)
(***************************************************************************)
\* the number of places of s at which the run sub starts
CountRuns(s, sub) ==
  Cardinality({i \in 1..(Len(s) - Len(sub) + 1) : SubSeq(s, i, i + Len(sub) - 1) = sub})

\* the number of top-level nodes of the rendered document that are the node n
CountNodes(n) == Cardinality({i \in 1..Len(DocContent) : DocContent[i] = n})

\* an embedded entry whose target is the link to b2, the block of the pool whose rich text
\* is [paragraph 'Hi', embedded entry b2]
CyclicEmbed == EmbedBlock(LinkStub("Entry", <<"b", "2">>))

HiParagraph == <<"<p>", "H", "i", "</p>">>

\* C23: rendering a document terminates for every finite snapshot pool, a pool with a
\* reference cycle included: the call returns a string, and the content of a block that
\* embeds itself is rendered at most twice for each place the document embeds it.
C23_CycleRenderedAtMostTwice ==
  (dPc = "done" /\ dIncludes = FullIncludes)
    => /\ dOut.kind = "string"
       /\ CountRuns(dOut.chars, HiParagraph)
            <= CountNodes(Paragraph(Hi)) + 2 * CountNodes(CyclicEmbed)

\* what the code does on the document [embedded entry b2]: the block is entered once for
\* each level of the call stack, and the RangeError of the level past the last one empties
\* the innermost document
C23_CycleRenderedToStackDepth ==
  (dPc = "done" /\ dIncludes = FullIncludes /\ dDoc = Document(<<CyclicEmbed>>))
    => /\ dOut.kind = "string"
       /\ CountRuns(dOut.chars, HiParagraph) = MaxDepth - 2

\* the document [embedded entry b2] has been rendered with the paragraph of b2 more than
\* twice
C23_CycleRenderedOften ==
  /\ dPc = "done" /\ dIncludes = FullIncludes /\ dDoc = Document(<<CyclicEmbed>>)
  /\ CountRuns(dOut.chars, HiParagraph) > 2

(***************************************************************************)
(* Claims about the two shapes of the target of an embedded entry.         *)
(***************************************************************************)
TargetOf(n) == Get(Get(n, "data"), "target")

\* a top-level embedded entry whose target carries the entity / is a link
IsCarried(n) == IsEmbeddedEntry(n) /\ Truthy(Get(TargetOf(n), "fields"))
IsLinked(n) ==
  IsEmbeddedEntry(n) /\ ~Truthy(Get(TargetOf(n), "fields"))
    /\ Truthy(Get(Get(TargetOf(n), "sys"), "id"))

TargetId(n) == Get(Get(TargetOf(n), "sys"), "id").chars

\* items, then includes.Entry
EntryPool == PoolOf(IF dItems = Undefined THEN Arr(<<>>) ELSE dItems)
               \o PoolOf(Get(dIncludes, "Entry"))

\* the document with each carried entity replaced by the link to its id
AsLinks(content) ==
  [i \in 1..Len(content) |->
     IF IsCarried(content[i]) THEN EmbedBlock(LinkStub("Entry", TargetId(content[i])))
     ELSE content[i]]

\* the document with each link replaced by the first entity of the pool with its id
AsCarried(content) ==
  [i \in 1..Len(content) |->
     IF IsLinked(content[i]) /\ HasId(EntryPool, TargetId(content[i]))
     THEN EmbedBlock(FirstWithId(EntryPool, TargetId(content[i])))
     ELSE content[i]]

\* the ids the links of a node and of the nodes below it name
RECURSIVE LinkIdsOf(_)
LinkIdsOf(n) ==
  IF IsLinked(n) THEN {TargetId(n)}
  ELSE IF IsArray(Get(n, "content"))
       THEN UNION {LinkIdsOf(Get(n, "content").elems[i]) :
                     i \in 1..Len(Get(n, "content").elems)}
       ELSE {}

\* no link of the document names the id of an entity that a target of the document carries
CarriedIdsNotLinked ==
  \A i, j \in 1..Len(DocContent) :
    IsCarried(DocContent[i]) => TargetId(DocContent[i]) \notin LinkIdsOf(DocContent[j])

\* the entities the targets of the document carry, in order
RECURSIVE CarriedOf(_)
CarriedOf(content) ==
  IF content = <<>> THEN <<>>
  ELSE (IF IsCarried(Head(content)) THEN <<TargetOf(Head(content))>> ELSE <<>>)
         \o CarriedOf(Tail(content))

\* C24: an embedded-entry node is supported in both shapes.  A node whose target is a
\* link renders as the node that carries the first entity with that id of items, then
\* includes; a node whose target carries the entity (has fields) renders that entity
\* whatever the pools hold under its id, as a link to it does once the entity is put in
\* front of items (for a document no link of which names that id); and when the pools
\* resolve the id to the carried entity, the node renders as the link to it does.
C24_BothShapes ==
  dPc = "done" =>
    /\ dOut = richTextToHtml(Document(AsCarried(DocContent)), dIncludes, dItems)
    /\ CarriedIdsNotLinked
         => dOut = richTextToHtml(Document(AsLinks(DocContent)), dIncludes,
                                  Arr(CarriedOf(DocContent) \o PoolOf(dItems)))
    /\ (\A i \in 1..Len(DocContent) :
          IsCarried(DocContent[i])
            => /\ HasId(EntryPool, TargetId(DocContent[i]))
               /\ FirstWithId(EntryPool, TargetId(DocContent[i])) = TargetOf(DocContent[i]))
         => dOut = richTextToHtml(Document(AsLinks(DocContent)), dIncludes, dItems)

\* a CTA carried under the id k1 has been rendered as it is, while items resolve k1 to
\* another CTA and includes to an SEO component
C24_Witness ==
  /\ dPc = "done" /\ env = EnvDefault
  /\ dIncludes = FullIncludes /\ dItems = ItemsWithK1
  /\ dDoc = Document(<<EmbedBlock(CtaEntry(<<"k", "1">>, CtaBlockDefault, Str(<<"U">>),
                                           Undefined, Undefined, Undefined))>>)
  /\ CarriedIdsNotLinked
  /\ ContainsRun(dOut.chars, <<"<h3 class=\"cta-block-heading\">", "U", "</h3>">>)

\* the CTA c1 has been rendered from a target that carries it and from a link to it, to
\* the same fragment twice
C24_WitnessSame ==
  /\ dPc = "done" /\ env = EnvDefault /\ dIncludes = FullIncludes
  /\ dDoc = Document(<<EmbedBlock(PoolEntries[1]), EmbedBlock(LinkStub("Entry", <<"c", "1">>))>>)
  /\ dOut # Str(<<>>)
  /\ dOut = Concat(richTextToHtml(Document(<<EmbedBlock(PoolEntries[1])>>), dIncludes, dItems),
                   richTextToHtml(Document(<<EmbedBlock(PoolEntries[1])>>), dIncludes, dItems))

(***************************************************************************)
(* Claims about the two fetches of a run and the writes that follow them.  *)
(***************************************************************************)
\* the fetch has been issued / has settled (its promise is fulfilled or rejected; the
\* rejection of the case-study query is the fulfilment of its catch)
Issued(res) == res.state # "none"
Settled(res) == res.state \in {"ok", "failed", "recovered"}

\* C25: in a generation run the blog fetch and the case-study fetch are issued together,
\* before either result is awaited (no state has one of them issued and not the other),
\* and whatever the order of their completions no step writes a file before both fetches
\* have settled.
C25_WritesAfterBothFetches ==
  /\ [](Issued(gBlogRes) <=> Issued(gCsRes))
  /\ []((gPc = "fetching" \/ gWritten # <<>>) => gFetches = 2)
  /\ [][(gFiles' # gFiles \/ (gWritten' # gWritten /\ gWritten' # <<>>))
          => (Settled(gBlogRes) /\ Settled(gCsRes))]_vars

\* the case-study query has failed and been recovered, the blog query has answered, and
\* the blog has been written
C25_Witness ==
  /\ gPc = "blogDone" /\ gWritten # <<>>
  /\ gBlogRes.state = "ok" /\ gCsRes.state = "recovered"

\* the case-study query has answered while the blog query is pending: nothing is written
C25_WitnessPending ==
  /\ gPc = "fetching" /\ gBlogRes.state = "pending" /\ gCsRes.state = "ok"
  /\ gWritten = <<>>

(***************************************************************************)
(* Claims about the paths of the writes of a run.                          *)
(***************************************************************************)
\* the elements of q are pairwise distinct
Distinct(q) == \A i, j \in 1..Len(q) : i # j => q[i] # q[j]

Reverse(q) == [i \in 1..Len(q) |-> q[Len(q) + 1 - i]]

\* the pages of the posts written once more over the files of the run, last post first,
\* leave every file as it is
BlogWriteOrderFree ==
  WriteBlogPosts(Reverse(ListingOf(gBlogRes.data).elems), IncludesOf(gBlogRes.data),
                 ListingOf(gBlogRes.data), Disk(gFiles, <<>>, FALSE)).files = gFiles

\* C26: within one generation run all file writes are keyed by pairwise distinct output
\* paths (the index pages and one page per entry), and the files that result do not
\* depend on the order in which the entries are written.
C26_DistinctPaths ==
  /\ Distinct(gWritten)
  /\ gPc = "blogDone" => BlogWriteOrderFree

\* what the code does: the paths are distinct, and the order of the writes is free, when
\* the posts of the response have pairwise distinct slugs
C26_DistinctForDistinctSlugs ==
  (gBlogRes.state = "ok" /\ BlogRenders(gBlogRes.data)
     /\ Distinct(BlogPagePaths(gBlogRes.data)))
    => /\ Distinct(gWritten)
       /\ gPc = "blogDone" => BlogWriteOrderFree

\* two posts of one slug have been written to one path: the file is the page of the second
C26_SamePathTwice ==
  /\ gPc = "blogDone" /\ ListingOf(gBlogRes.data).elems = <<PostA1, PostD>>
  /\ gWritten = <<IndexPath("blog"), PagePath("blog", <<"a">>), PagePath("blog", <<"a">>)>>
  /\ gFiles[PagePath("blog", <<"a">>)] = BlogPageOf(gBlogRes.data, 2)
  /\ ~BlogWriteOrderFree

FirstHeading(c) ==
  IF HeadsOf(c) = {} THEN Len(c) + 1
  ELSE CHOOSE h \in HeadsOf(c) : \A g \in HeadsOf(c) : h <= g

\* the extracted pairs, in order
PairsOut == IF IsArray(fPairs) THEN fPairs.elems ELSE <<>>

\* C28: extractFaqPairs ignores paragraph content that has no heading before it: the
\* paragraph and list nodes that precede the first heading are added to no pair's answer
\* (the pairs are those of the document without the nodes before its first heading), and
\* a document containing no level 2-6 heading yields the empty list.
C28_ContentBeforeFirstHeadingIgnored ==
  FaqExtracted
    => /\ fPairs = extractFaqPairs(Document(SubSeq(FaqContent, FirstHeading(FaqContent),
                                                   Len(FaqContent))))
       /\ HeadsOf(FaqContent) = {} => fPairs = Arr(<<>>)
       /\ \A k \in 1..Len(PairsOut) :
            \E h \in HeadsOf(FaqContent) :
              Get(PairsOut[k], "answer").chars
                = Trim(Join(TextsAt(FaqContent, Ascending(AnswersOf(FaqContent, h))), <<" ">>))

\* [paragraph A, heading Q, list L] has been scanned: the one pair is {Q, L}
C28_Witness ==
  /\ FaqExtracted
  /\ FaqContent = <<Paragraph(<<"A">>), Heading("heading-2", <<"Q">>),
                    ListOf("unordered-list", <<"L">>)>>
  /\ fPairs = Arr(<<FaqPair(<<"Q">>, <<"L">>)>>)

\* a document of paragraphs and a level 1 heading has been scanned: no pair
C28_WitnessNoHeading ==
  /\ FaqExtracted
  /\ FaqContent = <<Paragraph(<<"A">>), Heading("heading-1", <<"T">>), Paragraph(<<"A">>)>>
  /\ fPairs = Arr(<<>>)

\* the top-level nodes of the document that are a level 2-6 heading, a paragraph or a list
ScannedNodes(c) == SelectSeq(c, LAMBDA n : IsQuestionNode(n) \/ IsAnswerNode(n))

\* C29: in extractFaqPairs a top-level node that is neither a level 2-6 heading nor a
\* paragraph or list (heading-1, quote, embedded entry or asset, hr) leaves the scan state
\* unchanged: the pairs are those of the document without such nodes, so such a node
\* neither closes the open pair nor adds to its answer, and the answer parts on both
\* sides of it are joined into the same pair.
C29_OtherNodesLeaveScanUnchanged ==
  FaqExtracted => fPairs = extractFaqPairs(Document(ScannedNodes(FaqContent)))

\* [heading Q, paragraph A, hr, list L] has been scanned: the one pair is {Q, 'A L'}
C29_Witness ==
  /\ FaqExtracted
  /\ FaqContent = <<Heading("heading-2", <<"Q">>), Paragraph(<<"A">>),
                    Node("hr", Obj(<<>>), <<>>), ListOf("unordered-list", <<"L">>)>>
  /\ fPairs = Arr(<<FaqPair(<<"Q">>, <<"A", " ", "L">>)>>)

\* the same with an embedded entry between the two answer parts
C29_WitnessEmbedded ==
  /\ FaqExtracted
  /\ FaqContent = <<Heading("heading-2", <<"Q">>), Paragraph(<<"A">>),
                    EmbedBlock(EntryStub(<<"c", "1">>)), ListOf("unordered-list", <<"L">>)>>
  /\ fPairs = Arr(<<FaqPair(<<"Q">>, <<"A", " ", "L">>)>>)

\* the space id or the preview token is unset
Unconfigured == ~Truthy(sConf.space) \/ ~Truthy(sConf.token)
\* both parameters are absent or strings: reading them (65-66) does not throw
ParamsReadable == TrimmedParam(sQuery.slug) # Thrown /\ TrimmedParam(sQuery.id) # Thrown
\* the answers with the given status
Answered(status) == {k \in 1..Len(sRes) : sRes[k].status = status}

\* C30: in the preview handler the configuration check precedes parameter validation and
\* any upstream call: when the space id or preview token is unset, every GET /api/preview
\* request (one with neither slug nor id included) is answered 500 and no upstream fetch
\* is issued; and a 400 is always answered before any upstream fetch is issued.
C30_ConfigCheckFirst ==
  /\ Unconfigured => sFetches = 0
  /\ (Unconfigured /\ sPc = "done") => (Len(sRes) = 1 /\ sRes[1].status = 500)
  /\ Answered(400) # {} => sFetches = 0

\* what the code does: the same for the requests whose parameters can be read
C30_ConfigCheckFirstWhenReadable ==
  /\ Unconfigured => sFetches = 0
  /\ (Unconfigured /\ ParamsReadable /\ sPc = "done")
       => (Len(sRes) = 1 /\ sRes[1].status = 500)
  /\ Answered(400) # {} => (sFetches = 0 /\ ~Unconfigured)

\* a request with neither slug nor id to the unconfigured service has been answered 500
C30_UnconfiguredWithoutParams ==
  /\ Unconfigured /\ sPc = "done"
  /\ sQuery = [slug |-> Undefined, id |-> Undefined]
  /\ Len(sRes) = 1 /\ sRes[1].status = 500 /\ sFetches = 0

\* a request with a repeated parameter to the unconfigured service is done without an
\* answer: the read of the parameters threw before the configuration check
C30_UnconfiguredUnanswered ==
  /\ Unconfigured /\ sPc = "done"
  /\ sQuery.slug = Arr(<<Str(<<"a">>), Str(<<"b">>)>>)
  /\ sRes = <<>>

====
